---- MODULE Spec2Model ----
(***************************************************************************)
(* Model of the coresident-off-days schedule classification service.       *)
(*                                                                         *)
(* Strings are sequences of tokens (a token is a word of the string), a    *)
(* JavaScript object is the sequence of its [k, v] entries in insertion    *)
(* order, dates are day ordinals, and a compiled RegExp is the sequence of *)
(* the literal alternatives it was joined from, tested case-insensitively  *)
(* anywhere in the subject.                                                *)
(***************************************************************************)
EXTENDS Integers, Sequences, FiniteSets, TLC

\* ------------------------------------------------------------------------
\* Bounds of the model
\* ------------------------------------------------------------------------
MaxRoster == 2          \* longest roster handed to the classifier on its own
MaxDate == 4            \* request dates are the day ordinals 1..MaxDate
MaxBlockDays == 15      \* the longest block handed to the resolvers on their own
MaxRows == 2            \* most template rows handed to the primary fetch on its own

\* ------------------------------------------------------------------------
\* Configuration (serverless.yml)
\* ------------------------------------------------------------------------
SCHEDULED_OFF == "OFF"
SCHEDULED_MAYBE_OFF == "MAYBE"
ROLE_INTERN == "Intern"
ROLE_RESIDENT == "Resident"
CLASSIFICATION_KEY_OFF == "off"
CLASSIFICATION_KEY_MAYBE_OFF == "maybeOff"
CLASSIFICATION_KEY_LIKELY_NOT_OFF == "likelyNotOff"
SERVICE_BAYVIEW_ICU == "Bayview ICU"
EXP_PLACEHOLDER_POSITION == ":position"

\* ------------------------------------------------------------------------
\* JavaScript objects as insertion-ordered entry lists
\* ------------------------------------------------------------------------
ObjKeys(obj) == [i \in 1..Len(obj) |-> obj[i].k]

ObjHas(obj, key) == \E i \in 1..Len(obj) : obj[i].k = key

ObjGet(obj, key) == obj[CHOOSE i \in 1..Len(obj) : obj[i].k = key].v

\* obj[key] = val: an existing key keeps its place, a new key goes last
ObjSet(obj, key, val) ==
    IF ObjHas(obj, key)
    THEN [i \in 1..Len(obj) |-> IF obj[i].k = key THEN [k |-> key, v |-> val] ELSE obj[i]]
    ELSE Append(obj, [k |-> key, v |-> val])

\* {...a, ...b}
RECURSIVE ObjSpread(_, _)
ObjSpread(a, b) ==
    IF b = <<>> THEN a ELSE ObjSpread(ObjSet(a, Head(b).k, Head(b).v), Tail(b))

\* ------------------------------------------------------------------------
\* Strings
\* ------------------------------------------------------------------------
\* toLowerCase of one token, as the "i" flag folds it
Lower(t) ==
    CASE t = "CCU" -> "ccu"
      [] t = "Janeway" -> "janeway"
      [] t = "Bayview" -> "bayview"
      [] t = "ICU" -> "icu"
      [] t = "A" -> "a"
      [] t = "B" -> "b"
      [] OTHER -> t

LowerAll(s) == [i \in 1..Len(s) |-> Lower(s[i])]

\* String.prototype.replaceAll(placeholder, position) on a token string
ReplaceAll(expression, placeholder, position) ==
    [i \in 1..Len(expression) |->
        IF expression[i] = placeholder THEN position ELSE expression[i]]

\* n1 > n2 on strings of code units: lexicographic, a proper prefix is smaller
RECURSIVE StrGt(_, _)
StrGt(n1, n2) ==
    IF n1 = <<>> THEN FALSE
    ELSE IF n2 = <<>> THEN TRUE
    ELSE IF Head(n1) # Head(n2) THEN Head(n1) > Head(n2)
    ELSE StrGt(Tail(n1), Tail(n2))

\* ------------------------------------------------------------------------
\* Regular expressions (helpers/regex.js)
\* ------------------------------------------------------------------------
NullRegex == [null |-> TRUE, alts |-> <<>>]

NewRegExp(expressions) == [null |-> FALSE, alts |-> expressions]

\* expressions?.length > 0 ? new RegExp(`(?:${expressions.join("|")})`, "i") : null
tryBuildRegexForServices(expressions) ==
    IF Len(expressions) > 0 THEN NewRegExp(expressions) ELSE NullRegex

\* one literal alternative found anywhere in the subject, ignoring case
MatchesAlt(alt, subject) ==
    \E i \in 1..(Len(subject) + 1) :
        /\ i + Len(alt) - 1 <= Len(subject)
        /\ SubSeq(LowerAll(subject), i, i + Len(alt) - 1) = LowerAll(alt)

\* regex.test(assignment) for a non-null regex
RegexTest(regex, assignment) ==
    \E j \in 1..Len(regex.alts) : MatchesAlt(regex.alts[j], assignment)

\* ------------------------------------------------------------------------
\* Assignment classifier, role-aware (helpers/output.js)
\* ------------------------------------------------------------------------
\* the comparator with its branches swapped: descending order
CompareNamesDescending(n1, n2) == IF n1 = n2 THEN 0 ELSE IF StrGt(n1, n2) THEN -1 ELSE 1

\* the comparator of sortSchedulesByName: n1 === n2 ? 0 : n1 > n2 ? 1 : -1
CompareNames(n1, n2) == IF n1 = n2 THEN 0 ELSE IF StrGt(n1, n2) THEN 1 ELSE -1

\* insert one element into a sorted array behind every element not greater
RECURSIVE InsertByName(_, _)
InsertByName(sorted, e) ==
    IF sorted = <<>> THEN <<e>>
    ELSE IF CompareNames(Head(sorted).name, e.name) > 0 THEN <<e>> \o sorted
    ELSE <<Head(sorted)>> \o InsertByName(Tail(sorted), e)

\* [...schedules].sort(comparator): a stable sort by name
RECURSIVE sortSchedulesByName(_)
sortSchedulesByName(schedules) ==
    IF schedules = <<>> THEN <<>>
    ELSE InsertByName(sortSchedulesByName(SubSeq(schedules, 1, Len(schedules) - 1)),
                      schedules[Len(schedules)])

\* the loop with a break after the first match: the first match wins
RECURSIVE ClassificationKeyFirstMatch(_, _, _)
ClassificationKeyFirstMatch(regExpInfo, assignment, soFar) ==
    IF regExpInfo = <<>> THEN soFar
    ELSE IF RegexTest(Head(regExpInfo).v, assignment) THEN Head(regExpInfo).k
    ELSE ClassificationKeyFirstMatch(Tail(regExpInfo), assignment, soFar)

\* the loop stopping one entry short: the last category is never tested
RECURSIVE ClassificationKeySkipLast(_, _, _)
ClassificationKeySkipLast(regExpInfo, assignment, soFar) ==
    IF Len(regExpInfo) <= 1 THEN soFar
    ELSE ClassificationKeySkipLast(
            Tail(regExpInfo), assignment,
            IF RegexTest(Head(regExpInfo).v, assignment) THEN Head(regExpInfo).k ELSE soFar)

\* the inner for loop over Object.entries(regExpInfo): the last match wins
RECURSIVE ClassificationKeyToAddTo(_, _, _)
ClassificationKeyToAddTo(regExpInfo, assignment, soFar) ==
    IF regExpInfo = <<>> THEN soFar
    ELSE ClassificationKeyToAddTo(
            Tail(regExpInfo), assignment,
            IF RegexTest(Head(regExpInfo).v, assignment) THEN Head(regExpInfo).k ELSE soFar)

\* the outer loop pushing into every category whose pattern matches
RECURSIVE PushIntoEveryMatch(_, _, _)
PushIntoEveryMatch(classifiedSchedules, regExpInfo, schedules) ==
    IF schedules = <<>> THEN classifiedSchedules
    ELSE LET e == [name |-> Head(schedules).k, role |-> Head(schedules).v.role,
                   assignment |-> Head(schedules).v.assignment]
             matches(key) ==
                 \E i \in 1..Len(regExpInfo) :
                     regExpInfo[i].k = key /\ RegexTest(regExpInfo[i].v, e.assignment)
             next == [i \in 1..Len(classifiedSchedules) |->
                         [k |-> classifiedSchedules[i].k,
                          v |-> IF matches(classifiedSchedules[i].k)
                                THEN Append(classifiedSchedules[i].v, e)
                                ELSE classifiedSchedules[i].v]]
         IN PushIntoEveryMatch(next, regExpInfo, Tail(schedules))

\* the outer for loop over Object.entries(schedules): one push per entry
RECURSIVE PushSchedules(_, _, _)
PushSchedules(classifiedSchedules, regExpInfo, schedules) ==
    IF schedules = <<>> THEN classifiedSchedules
    ELSE LET name == Head(schedules).k
             role == Head(schedules).v.role
             assignment == Head(schedules).v.assignment
             key == ClassificationKeyToAddTo(regExpInfo, assignment,
                                             CLASSIFICATION_KEY_LIKELY_NOT_OFF)
             pushed == Append(ObjGet(classifiedSchedules, key),
                              [name |-> name, role |-> role, assignment |-> assignment])
         IN PushSchedules(ObjSet(classifiedSchedules, key, pushed), regExpInfo, Tail(schedules))

\* regex.test on a null regex throws a TypeError; the loop runs once per entry
ClassifyThrows(regExpInfo, schedules) ==
    /\ schedules # <<>>
    /\ \E i \in 1..Len(regExpInfo) : regExpInfo[i].v.null

classifySchedulesByStatus(regExpInfo, schedules) ==
    LET empty == [i \in 1..Len(regExpInfo) |-> [k |-> regExpInfo[i].k, v |-> <<>>]]
        withDefault == ObjSet(empty, CLASSIFICATION_KEY_LIKELY_NOT_OFF, <<>>)
        pushed == PushSchedules(withDefault, regExpInfo, schedules)
    IN [i \in 1..Len(pushed) |-> [k |-> pushed[i].k, v |-> sortSchedulesByName(pushed[i].v)]]

\* ------------------------------------------------------------------------
\* Assignment classifier, simple variant (earlier helpers/output.js)
\* ------------------------------------------------------------------------
\* the inner loop: every entry of the roster whose assignment matches, in order
RECURSIVE MatchedSchedules(_, _)
MatchedSchedules(regex, schedules) ==
    IF schedules = <<>> THEN <<>>
    ELSE (IF RegexTest(regex, Head(schedules).v)
          THEN <<[name |-> Head(schedules).k, assignment |-> Head(schedules).v]>>
          ELSE <<>>) \o MatchedSchedules(regex, Tail(schedules))

\* the loops with every matched entry taken off the roster of the categories
\* that follow: an entry is reported under its first matching category only
RECURSIVE classifySchedulesByStatusExclusive(_, _)
classifySchedulesByStatusExclusive(regExpInfo, schedules) ==
    IF regExpInfo = <<>> THEN <<>>
    ELSE <<[k |-> Head(regExpInfo).k,
            v |-> sortSchedulesByName(MatchedSchedules(Head(regExpInfo).v, schedules))]>>
         \o classifySchedulesByStatusExclusive(
                Tail(regExpInfo),
                SelectSeq(schedules, LAMBDA s : ~RegexTest(Head(regExpInfo).v, s.v)))

classifySchedulesByStatusSimple(regExpInfo, schedules) ==
    [i \in 1..Len(regExpInfo) |->
        [k |-> regExpInfo[i].k,
         v |-> sortSchedulesByName(MatchedSchedules(regExpInfo[i].v, schedules))]]

\* ------------------------------------------------------------------------
\* Dates (dayjs, FORMAT_DATE)
\* ------------------------------------------------------------------------
\* thisDay.format("YYYY-MM-DD"): the day ordinal as <<year, month, day>>, whose
\* field-by-field order is the order of the zero-padded string; ordinal 0 is
\* 2023-07-29, so the modelled window crosses a month boundary
FormatDate(day) == IF day <= 2 THEN <<2023, 7, 29 + day>> ELSE <<2023, 8, day - 2>>

\* dayjs(string): the day ordinal of a formatted date
ParseDate(str) == IF str[2] = 7 THEN str[3] - 29 ELSE str[3] + 2

\* a <= b on formatted dates, as the store compares strings
DateStrLe(a, b) ==
    \/ a[1] < b[1]
    \/ a[1] = b[1] /\ a[2] < b[2]
    \/ a[1] = b[1] /\ a[2] = b[2] /\ a[3] <= b[3]

\* thisDay.diff(startDate, "day")
DiffDays(thisDay, startDate) == thisDay - ParseDate(startDate)

\* ------------------------------------------------------------------------
\* Block info (helpers/block-info.js)
\* ------------------------------------------------------------------------
\* the value undefined where a string is expected: what reading the block
\* name of a record without one gives
undefined == <<"undefined">>

\* String.prototype.includes for one character
Includes(str, ch) == \E i \in 1..Len(str) : str[i] = ch

\* blockName?.includes("A"): true or false, and undefined when there is no
\* name to ask; the three values are written as the strings naming them
OptionalIncludes(blockName, ch) ==
    IF blockName = undefined THEN "undefined"
    ELSE IF Includes(blockName, ch) THEN "true" ELSE "false"

\* what a condition makes of such a value: only true is truthy
Truthy(v) == v = "true"

\* the day number without the "+ 1": days are counted from zero
buildBlockInfoFromZero(thisDay, blockName, startDate) ==
    [blockName |-> blockName,
     isA |-> OptionalIncludes(blockName, "A"),
     dayNumber |-> DiffDays(thisDay, startDate)]

buildBlockInfo(thisDay, blockName, startDate) ==
    [blockName |-> blockName,
     isA |-> OptionalIncludes(blockName, "A"),
     dayNumber |-> DiffDays(thisDay, startDate) + 1]

getBlockNameFromBlockInfo(blockInfo) == blockInfo.blockName

getIsAFromBlockInfo(blockInfo) == blockInfo.isA

getDayNumberFromBlockInfo(blockInfo) == blockInfo.dayNumber

\* ------------------------------------------------------------------------
\* Block resolver (helpers/db.js)
\* ------------------------------------------------------------------------
\* the scan with the end of the interval exclusive
ScanBlocksEndExclusive(table, date) ==
    SelectSeq(table, LAMBDA b : DateStrLe(b.start_date, date) /\ DateStrLe(date, b.end_date)
                                /\ date # b.end_date)

\* the scan without its second condition: every block begun by the date
ScanBlocksStartOnly(table, date) ==
    SelectSeq(table, LAMBDA b : DateStrLe(b.start_date, date))

\* ScanCommand on the blocks table: "start_date <= :date And end_date >= :date"
ScanBlocks(table, date) ==
    SelectSeq(table, LAMBDA b : DateStrLe(b.start_date, date) /\ DateStrLe(date, b.end_date))

\* the reduce whose callback returns the value of the assignment and not the
\* accumulator: what is returned is the BlockInfo of the last record
ReduceBlocksLastInfo(obj, blocks, thisDay) ==
    IF blocks = <<>> THEN obj
    ELSE LET info == buildBlockInfo(thisDay, blocks[Len(blocks)].block,
                                    blocks[Len(blocks)].start_date)
         IN <<[k |-> "blockName", v |-> info.blockName],
              [k |-> "isA", v |-> info.isA],
              [k |-> "dayNumber", v |-> info.dayNumber]>>

\* blocks.reduce(...): one BlockInfo per role, keyed by the record's role
RECURSIVE ReduceBlocks(_, _, _)
ReduceBlocks(obj, blocks, thisDay) ==
    IF blocks = <<>> THEN obj
    ELSE ReduceBlocks(
            ObjSet(obj, Head(blocks).role,
                   buildBlockInfo(thisDay, Head(blocks).block, Head(blocks).start_date)),
            Tail(blocks), thisDay)

\* blocks[0].block.includes("A") of the role-unaware resolver: reading
\* includes of a missing name is a TypeError
BlockInfoForDateThrows(blocks) == blocks[1].block = undefined

\* the return value of the role-unaware getBlockInfoForDate: the first record
BlockInfoForDate(blocks, thisDay) ==
    [blockName |-> blocks[1].block,
     isA |-> IF Includes(blocks[1].block, "A") THEN "true" ELSE "false",
     dayNumber |-> DiffDays(thisDay, blocks[1].start_date) + 1]

\* ------------------------------------------------------------------------
\* Roster fetch (helpers/db.js)
\* ------------------------------------------------------------------------
\* ScanCommand on the schedules table: "#role = :role", projecting #name, #blockName
ScanSchedules(table, role, blockName) ==
    LET rows == SelectSeq(table, LAMBDA r : r.role = role)
    IN [i \in 1..Len(rows) |->
            [name |-> rows[i].name, assignment |-> ObjGet(rows[i].cols, blockName)]]

\* schedules.reduce(...): name -> {role, assignment}
RECURSIVE ReduceSchedules(_, _, _)
ReduceSchedules(obj, rows, role) ==
    IF rows = <<>> THEN obj
    ELSE ReduceSchedules(
            ObjSet(obj, Head(rows).name,
                   [role |-> role, assignment |-> Head(rows).assignment]),
            Tail(rows), role)

\* ------------------------------------------------------------------------
\* Off-rotation fetch, primary source (helpers/db.js)
\* ------------------------------------------------------------------------
\* ScanCommand on the templates table: role, day column OFF or MAYBE, block type
ScanTemplates(table, role, isA, dayNumber) ==
    LET col == ToString(dayNumber)
        rows == SelectSeq(table, LAMBDA r :
                    /\ r.role = role
                    /\ ObjHas(r.days, col)
                    /\ ObjGet(r.days, col) \in {SCHEDULED_OFF, SCHEDULED_MAYBE_OFF}
                    /\ r.block_type \in {"Any", IF Truthy(isA) THEN "A" ELSE "B"})
    IN [i \in 1..Len(rows) |->
            [service |-> rows[i].service, position |-> rows[i].position,
             scheduled |-> ObjGet(rows[i].days, col)]]

\* the for loop of getOffAndMaybeOffRotationsForRole: OFF rows, or MAYBE rows
RECURSIVE RotationsScheduled(_, _, _)
RotationsScheduled(obj, rows, wantOff) ==
    IF rows = <<>> THEN obj
    ELSE RotationsScheduled(
            IF (Head(rows).scheduled = SCHEDULED_OFF) = wantOff
            THEN ObjSet(obj, Head(rows).service, Head(rows).position)
            ELSE obj,
            Tail(rows), wantOff)

\* the return value of getOffAndMaybeOffRotationsForRole
OffAndMaybeOffRotations(rows) ==
    <<[k |-> CLASSIFICATION_KEY_OFF, v |-> RotationsScheduled(<<>>, rows, TRUE)],
      [k |-> CLASSIFICATION_KEY_MAYBE_OFF, v |-> RotationsScheduled(<<>>, rows, FALSE)]>>

\* ------------------------------------------------------------------------
\* Off-rotation fetch, primary source (helpers/templates.js)
\* ------------------------------------------------------------------------
\* process.SCHEDULED_OFF: the process object has no such property, the
\* configuration being under process.env
ProcessScheduledOff == "undefined"

\* the for loop of the getOffAndMaybeOffRotationsForRole of templates.js, which
\* compares the day number column with process.SCHEDULED_OFF
RECURSIVE TemplatesRotationsScheduled(_, _, _)
TemplatesRotationsScheduled(obj, rows, wantOff) ==
    IF rows = <<>> THEN obj
    ELSE TemplatesRotationsScheduled(
            IF (Head(rows).scheduled = ProcessScheduledOff) = wantOff
            THEN ObjSet(obj, Head(rows).service, Head(rows).position)
            ELSE obj,
            Tail(rows), wantOff)

\* the return value of the getOffAndMaybeOffRotationsForRole of templates.js
TemplatesOffAndMaybeOffRotations(rows) ==
    <<[k |-> CLASSIFICATION_KEY_OFF, v |-> TemplatesRotationsScheduled(<<>>, rows, TRUE)],
      [k |-> CLASSIFICATION_KEY_MAYBE_OFF,
       v |-> TemplatesRotationsScheduled(<<>>, rows, FALSE)]>>

\* ------------------------------------------------------------------------
\* Off-rotation fetch, Bayview (helpers/db.js)
\* ------------------------------------------------------------------------
\* QueryCommand on the Bayview templates: "#date = :date"
QueryBayview(table, date) == SelectSeq(table, LAMBDA r : r.date = date)

\* Object.keys(bvTemplateForDay): the position columns, whose names are
\* integers and so come first in ascending order, then the date column
BayviewColumns(row) == ObjKeys(row.positions) \o <<"date">>

\* bvTemplateForDay[key] === SCHEDULED_OFF; the date column holds a date
BayviewColumnIsOff(row, key) ==
    key # "date" /\ ObjGet(row.positions, key) = SCHEDULED_OFF

\* the loop leaving at the first column found: the first OFF column stands
RECURSIVE BayviewOffRotationsFirst(_, _, _)
BayviewOffRotationsFirst(obj, row, keys) ==
    IF keys = <<>> THEN obj
    ELSE IF BayviewColumnIsOff(row, Head(keys))
    THEN ObjSet(obj, SERVICE_BAYVIEW_ICU, Head(keys))
    ELSE BayviewOffRotationsFirst(obj, row, Tail(keys))

\* the for loop of getBayviewOffRotations
RECURSIVE BayviewOffRotations(_, _, _)
BayviewOffRotations(obj, row, keys) ==
    IF keys = <<>> THEN obj
    ELSE BayviewOffRotations(
            IF BayviewColumnIsOff(row, Head(keys))
            THEN ObjSet(obj, SERVICE_BAYVIEW_ICU, Head(keys))
            ELSE obj,
            row, Tail(keys))

\* the merge with the spreads in the other order: a primary fact keeps its place
MergeBayviewPrimaryWins(rotationsByScheduled, bvOffRotations) ==
    ObjSet(rotationsByScheduled, CLASSIFICATION_KEY_OFF,
           ObjSpread(bvOffRotations, ObjGet(rotationsByScheduled, CLASSIFICATION_KEY_OFF)))

\* the merge of getRotationsByScheduledForRoleAndBlockInfo
MergeBayview(rotationsByScheduled, bvOffRotations) ==
    ObjSet(rotationsByScheduled, CLASSIFICATION_KEY_OFF,
           ObjSpread(ObjGet(rotationsByScheduled, CLASSIFICATION_KEY_OFF), bvOffRotations))

\* ------------------------------------------------------------------------
\* Rule builder (helpers/db.js)
\* ------------------------------------------------------------------------
\* a scan that makes up an expression for a service without a stored one
ScanServiceRegexDefaulting(table, services) ==
    SelectSeq(table, LAMBDA r : \E i \in 1..Len(services) : services[i] = r.service)
        \o [i \in 1..Len(SelectSeq(services,
                                    LAMBDA s : \A t \in 1..Len(table) : table[t].service # s)) |->
               [service |-> SelectSeq(services,
                                LAMBDA s : \A t \in 1..Len(table) : table[t].service # s)[i],
                expression |-> <<SelectSeq(services,
                                LAMBDA s : \A t \in 1..Len(table) : table[t].service # s)[i],
                                 EXP_PLACEHOLDER_POSITION>>]]

\* ScanCommand on the service regex table: "service IN (...)"
ScanServiceRegex(table, services) ==
    SelectSeq(table, LAMBDA r : \E i \in 1..Len(services) : services[i] = r.service)

\* the for loop of getRegexForRotationsByScheduled: the expressions of one category
RECURSIVE ExpArray(_, _, _)
ExpArray(serviceRegexObjs, rotationsByScheduled, wantMaybeOff) ==
    IF serviceRegexObjs = <<>> THEN <<>>
    ELSE LET service == Head(serviceRegexObjs).service
             expression == Head(serviceRegexObjs).expression
             isMaybeOff ==
                 ObjHas(ObjGet(rotationsByScheduled, CLASSIFICATION_KEY_MAYBE_OFF), service)
             classificationKeyToUse ==
                 IF isMaybeOff THEN CLASSIFICATION_KEY_MAYBE_OFF ELSE CLASSIFICATION_KEY_OFF
         IN (IF isMaybeOff = wantMaybeOff
             THEN <<ReplaceAll(expression, EXP_PLACEHOLDER_POSITION,
                               ObjGet(ObjGet(rotationsByScheduled, classificationKeyToUse),
                                      service))>>
             ELSE <<>>)
            \o ExpArray(Tail(serviceRegexObjs), rotationsByScheduled, wantMaybeOff)

\* the entries of the object literal: both categories, built or null
RegexEntries(offExpArray, maybeOffExpArray) ==
    <<[k |-> CLASSIFICATION_KEY_OFF, v |-> tryBuildRegexForServices(offExpArray)],
      [k |-> CLASSIFICATION_KEY_MAYBE_OFF, v |-> tryBuildRegexForServices(maybeOffExpArray)]>>

\* the object literal with its keys swapped: MAYBE_OFF inserted first
NonNullRegexByCategoryMaybeOffFirst(offExpArray, maybeOffExpArray) ==
    SelectSeq(<<RegexEntries(offExpArray, maybeOffExpArray)[2],
                RegexEntries(offExpArray, maybeOffExpArray)[1]>>, LAMBDA e : ~e.v.null)

\* the return value without the filter: null patterns stay in the map
RegexByCategoryUnfiltered(offExpArray, maybeOffExpArray) ==
    RegexEntries(offExpArray, maybeOffExpArray)

\* Object.fromEntries(Object.entries({...}).filter(([key, regexOrNull]) => regexOrNull != null))
NonNullRegexByCategory(offExpArray, maybeOffExpArray) ==
    SelectSeq(RegexEntries(offExpArray, maybeOffExpArray), LAMBDA e : ~e.v.null)

\* the services the scan is asked for: [...offServices, ...maybeOffServices]
ServicesOf(rotationsByScheduled) ==
    ObjKeys(ObjGet(rotationsByScheduled, CLASSIFICATION_KEY_OFF))
        \o ObjKeys(ObjGet(rotationsByScheduled, CLASSIFICATION_KEY_MAYBE_OFF))

getRegexForRotationsByScheduled(serviceRegexObjs, rotationsByScheduled) ==
    NonNullRegexByCategory(ExpArray(serviceRegexObjs, rotationsByScheduled, FALSE),
                           ExpArray(serviceRegexObjs, rotationsByScheduled, TRUE))

\* ------------------------------------------------------------------------
\* Errors and responses (helpers/status-error.js, index.js)
\* ------------------------------------------------------------------------
BOUND_MIN_DATE == 0

BOUND_MAX_DATE == MaxDate

StatusError(statusCode, message) ==
    [isStatusError |-> TRUE, statusCode |-> statusCode, message |-> message]

\* an error thrown by the store client or the runtime
OtherError(message) == [isStatusError |-> FALSE, statusCode |-> 0, message |-> message]

StoreErrorMessages == {"ThrottlingException", "InternalServerError"}

\* the error of a scan whose filter expression the store cannot parse
InvalidExpressionMessage == "ValidationException"

buildError(message) == message

\* a catch block answering every error alike
CatchAll500(error) ==
    [status |-> 500, message |-> buildError(error.message), payload |-> <<>>]

\* a catch block hiding the message of an unexpected error
CatchGenericMessage(error) ==
    IF error.isStatusError
    THEN [status |-> error.statusCode, message |-> buildError(error.message), payload |-> <<>>]
    ELSE [status |-> 500, message |-> buildError("Internal server error"), payload |-> <<>>]

\* the catch block of the handler: res.status(...).json(buildError(error.message))
Catch(error) ==
    IF error.isStatusError
    THEN [status |-> error.statusCode, message |-> buildError(error.message), payload |-> <<>>]
    ELSE [status |-> 500, message |-> buildError(error.message), payload |-> <<>>]

\* tryBuildDayFromDate: the date must lie after the minimum and not after the maximum
IsSupportedDate(d) == d > BOUND_MIN_DATE /\ d <= BOUND_MAX_DATE

\* humanReadableMinDate: the first supported date
humanReadableMinDate == FormatDate(BOUND_MIN_DATE + 1)

\* sortClassifiedSchedulesByName: every category of the aggregate sorted by name
sortClassifiedSchedulesByName(classified) ==
    [i \in 1..Len(classified) |->
        [k |-> classified[i].k, v |-> sortSchedulesByName(classified[i].v)]]

\* blockInfoByRole[role], absent when the role has no block
BlockInfoOf(infoByRole, role) ==
    IF ObjHas(infoByRole, role) THEN <<ObjGet(infoByRole, role)>> ELSE <<>>

\* the aggregate before the first role
EmptySchedulesByStatus ==
    <<[k |-> CLASSIFICATION_KEY_OFF, v |-> <<>>],
      [k |-> CLASSIFICATION_KEY_MAYBE_OFF, v |-> <<>>],
      [k |-> CLASSIFICATION_KEY_LIKELY_NOT_OFF, v |-> <<>>]>>

\* the merge assigning where it should push: the role merged last stands alone
MergeClassifiedAssigning(aggregate, classified) ==
    [i \in 1..Len(aggregate) |->
        [k |-> aggregate[i].k,
         v |-> IF ObjHas(classified, aggregate[i].k)
               THEN ObjGet(classified, aggregate[i].k) ELSE <<>>]]

\* schedulesByStatus[key].push(...(classifiedSchedules[key] || [])) for every key
MergeClassified(aggregate, classified) ==
    [i \in 1..Len(aggregate) |->
        [k |-> aggregate[i].k,
         v |-> aggregate[i].v \o
               (IF ObjHas(classified, aggregate[i].k)
                THEN ObjGet(classified, aggregate[i].k) ELSE <<>>)]]

\* res.json({"schedule-status": {...}})
SuccessResponse(thisDay, infoByRole, aggregate) ==
    [status |-> 200, message |-> "",
     payload |-> <<[fetchedDate |-> FormatDate(thisDay),
                    minDate |-> humanReadableMinDate,
                    maxDate |-> FormatDate(BOUND_MAX_DATE),
                    internBlockInfo |-> BlockInfoOf(infoByRole, ROLE_INTERN),
                    residentBlockInfo |-> BlockInfoOf(infoByRole, ROLE_RESIDENT),
                    schedules |-> sortClassifiedSchedulesByName(aggregate)]>>]

\* ------------------------------------------------------------------------
\* The data store
\* ------------------------------------------------------------------------
BlockNames == {<<"1", "A">>, <<"1", "B">>}

\* block records: two days long, starting on any day of the supported window
BlockRecords ==
    {[role |-> r, block |-> b, start_date |-> FormatDate(d), end_date |-> FormatDate(d + 1)] :
        r \in {ROLE_INTERN, ROLE_RESIDENT}, b \in BlockNames, d \in 1..(MaxDate - 1)}

\* blocks tables in scan order: at most one record per role
BlocksTables ==
    {<<>>} \cup {<<b>> : b \in BlockRecords}
        \cup {<<b1, b2>> : b1 \in {b \in BlockRecords : b.role = ROLE_INTERN},
                           b2 \in {b \in BlockRecords : b.role = ROLE_RESIDENT}}
        \cup {<<b2, b1>> : b1 \in {b \in BlockRecords : b.role = ROLE_INTERN},
                           b2 \in {b \in BlockRecords : b.role = ROLE_RESIDENT}}

SchedulesTable ==
    <<[name |-> <<2>>, role |-> ROLE_INTERN,
       cols |-> <<[k |-> <<"1", "A">>, v |-> <<"ccu", "a">>],
                  [k |-> <<"1", "B">>, v |-> <<"Janeway", "B">>]>>],
      [name |-> <<2, 1>>, role |-> ROLE_RESIDENT,
       cols |-> <<[k |-> <<"1", "A">>, v |-> <<"CCU", "B">>],
                  [k |-> <<"1", "B">>, v |-> <<"Bayview", "2">>]>>],
      [name |-> <<1>>, role |-> ROLE_INTERN,
       cols |-> <<[k |-> <<"1", "A">>, v |-> <<"CCU", "A", "Janeway", "B">>],
                  [k |-> <<"1", "B">>, v |-> <<"Nights", "A">>]>>],
      [name |-> <<1, 2>>, role |-> ROLE_RESIDENT,
       cols |-> <<[k |-> <<"1", "A">>, v |-> <<"ccu", "a">>],
                  [k |-> <<"1", "B">>, v |-> <<"Janeway", "B">>]>>]>>

\* the day number columns of a template row
Days(d1, d2) == <<[k |-> "1", v |-> d1], [k |-> "2", v |-> d2]>>

TemplatesTable ==
    <<[role |-> ROLE_INTERN, service |-> "CCU", position |-> "A", block_type |-> "A",
       days |-> Days("OFF", "WORK")],
      [role |-> ROLE_INTERN, service |-> "Janeway", position |-> "B", block_type |-> "A",
       days |-> Days("MAYBE", "OFF")],
      [role |-> ROLE_INTERN, service |-> "Nights", position |-> "A", block_type |-> "B",
       days |-> Days("WORK", "MAYBE")],
      [role |-> ROLE_INTERN, service |-> "Janeway", position |-> "B", block_type |-> "B",
       days |-> Days("WORK", "OFF")],
      [role |-> ROLE_RESIDENT, service |-> "CCU", position |-> "A", block_type |-> "A",
       days |-> Days("OFF", "MAYBE")],
      [role |-> ROLE_RESIDENT, service |-> "CCU", position |-> "B", block_type |-> "Any",
       days |-> Days("MAYBE", "WORK")],
      [role |-> ROLE_RESIDENT, service |-> SERVICE_BAYVIEW_ICU, position |-> "1",
       block_type |-> "B", days |-> Days("OFF", "WORK")],
      [role |-> ROLE_RESIDENT, service |-> "Janeway", position |-> "B", block_type |-> "B",
       days |-> Days("WORK", "OFF")]>>

\* the position columns of a Bayview row, in ascending order
Positions(p1, p2) == <<[k |-> "1", v |-> p1], [k |-> "2", v |-> p2]>>

\* one row per date, none from the fourth day on
BayviewTable ==
    <<[date |-> FormatDate(1), positions |-> Positions("OFF", "WORK")],
      [date |-> FormatDate(2), positions |-> Positions("OFF", "OFF")],
      [date |-> FormatDate(3), positions |-> Positions("WORK", "WORK")]>>

\* expression templates; the service Nights has none
ServiceRegexTable ==
    <<[service |-> "Janeway", expression |-> <<"Janeway", EXP_PLACEHOLDER_POSITION>>],
      [service |-> "CCU", expression |-> <<"CCU", EXP_PLACEHOLDER_POSITION>>],
      [service |-> SERVICE_BAYVIEW_ICU,
       expression |-> <<"Bayview", EXP_PLACEHOLDER_POSITION>>]>>

\* ------------------------------------------------------------------------
\* State
\* ------------------------------------------------------------------------
VARIABLES
    date,                   \* req.params.date, a day ordinal
    store,                  \* the tables of the data store
    pc,                     \* where the request handler stands
    blockInfoByRole,        \* role -> BlockInfo, once resolved
    roleIdx,                \* the entry of blockInfoByRole being processed
    call,                   \* the state of every store call of the request
    schedules,              \* the roster of the current role, once fetched
    rotationsByScheduled,   \* the off / maybe off facts of the current role
    bvOffRotations,         \* the Bayview facts of the current role
    regExpInfo,             \* the rule map of the current role
    classifiedByRole,       \* role -> the role's classification, once computed
    schedulesByStatus,      \* the aggregate over the roles processed so far
    responses,              \* the responses sent, in order
    thrown,                 \* the errors raised while handling, in order
    cRegExpInfo, cSchedules, cRole, cClassified, cCalled,
    fIn,                    \* the arguments of a helper called on its own
    fOut,                   \* what the helper returned
    fThrown,                \* what the helper threw
    fCalled,                \* the helper that was called
    suspended               \* the locals of a second request that waits while this one runs

hvars == <<date, store, pc, blockInfoByRole, roleIdx, call, schedules, rotationsByScheduled,
           bvOffRotations, regExpInfo, classifiedByRole, schedulesByStatus, responses,
           thrown>>

kvars == <<cRegExpInfo, cSchedules, cRole, cClassified, cCalled>>

fvars == <<fIn, fOut, fThrown, fCalled>>

cvars == <<kvars, fvars>>

vars == <<hvars, cvars, suspended>>

CallNames == {"schedules", "templates", "bayview", "serviceRegex"}

\* <<0, "blocks">> is the block scan, <<r, n>> the call n of the r-th role
Calls == {<<0, "blocks">>} \cup ({1, 2} \X CallNames)

\* ------------------------------------------------------------------------
\* GET /schedule-status/:date (index.js)
\* ------------------------------------------------------------------------
IdleHandler ==
    /\ blockInfoByRole = <<>>
    /\ roleIdx = 0
    /\ call = [c \in Calls |-> "unissued"]
    /\ schedules = <<>>
    /\ rotationsByScheduled = <<>>
    /\ bvOffRotations = <<>>
    /\ regExpInfo = <<>>
    /\ classifiedByRole = <<>>
    /\ schedulesByStatus = <<>>
    /\ responses = <<>>
    /\ thrown = <<>>

IdleClassifier ==
    /\ cRegExpInfo = <<>>
    /\ cSchedules = <<>>
    /\ cRole = ROLE_INTERN
    /\ cClassified = <<>>
    /\ cCalled = "none"

IdleHelper ==
    /\ fIn = <<>>
    /\ fOut = <<>>
    /\ fThrown = <<>>
    /\ fCalled = "none"

Init ==
    /\ date \in (BOUND_MIN_DATE)..(BOUND_MAX_DATE + 1)
    /\ store \in [blocks : BlocksTables, schedules : {SchedulesTable},
                  templates : {TemplatesTable}, bayview : {BayviewTable},
                  serviceRegex : {ServiceRegexTable}]
    /\ pc = "start"
    /\ IdleHandler
    /\ IdleClassifier
    /\ IdleHelper
    /\ suspended = <<>>

RoleAt(r) == blockInfoByRole[r].k

\* the calls of a role with the Bayview query sent whatever the role
StartRoleAlwaysBayview(calls, role, r) ==
    [c \in Calls |->
        IF c \in {<<r, "schedules">>, <<r, "templates">>, <<r, "bayview">>} THEN "pending"
        ELSE calls[c]]

\* the roster scan of the role that follows is started along with the role
StartRoleAndNextRoster(calls, role, r) ==
    [c \in Calls |->
        IF c \in {<<r, "schedules">>, <<r, "templates">>, <<r + 1, "schedules">>} THEN "pending"
        ELSE IF c = <<r, "bayview">> /\ role = ROLE_RESIDENT THEN "pending"
        ELSE calls[c]]

\* the calls classifySchedulesForRoleAndBlockInfo starts for a role: the roster
\* scan, the templates scan and, for a resident only, the Bayview query
StartRole(calls, role, r) ==
    [c \in Calls |->
        IF c \in {<<r, "schedules">>, <<r, "templates">>} THEN "pending"
        ELSE IF c = <<r, "bayview">> /\ role = ROLE_RESIDENT THEN "pending"
        ELSE calls[c]]

\* every settling call is taken to reach the handler
AwaitedAlways(c) == TRUE

\* the handler is waiting on the call
Awaited(c) ==
    \/ c = <<0, "blocks">> /\ pc = "awaitBlocks"
    \/ c[1] = roleIdx /\ c[2] \in {"schedules", "templates", "bayview"} /\ pc = "awaitFetch"
    \/ c[1] = roleIdx /\ c[2] = "serviceRegex" /\ pc = "awaitRegex"

\* a store call settles with an error: the rejection reaches the catch block
\* unless the handler has already left the try block
Rejects(c, status, error) ==
    /\ call[c] = "pending"
    /\ call' = [call EXCEPT ![c] = status]
    /\ thrown' = Append(thrown, error)
    /\ IF Awaited(c)
       THEN /\ responses' = Append(responses, Catch(error))
            /\ pc' = "done"
       ELSE UNCHANGED <<responses, pc>>
    /\ UNCHANGED <<date, store, blockInfoByRole, roleIdx, schedules, rotationsByScheduled,
                   bvOffRotations, regExpInfo, classifiedByRole, schedulesByStatus>>

\* tryBuildDayFromDate, then the block scan is sent
ReceiveRequest ==
    /\ pc = "start"
    /\ IF IsSupportedDate(date)
       THEN /\ call' = [call EXCEPT ![<<0, "blocks">>] = "pending"]
            /\ pc' = "awaitBlocks"
            /\ UNCHANGED <<responses, thrown>>
       ELSE /\ thrown' = Append(thrown, StatusError(400, "Invalid date"))
            /\ responses' = Append(responses, Catch(StatusError(400, "Invalid date")))
            /\ pc' = "done"
            /\ UNCHANGED call
    /\ UNCHANGED <<date, store, blockInfoByRole, roleIdx, schedules, rotationsByScheduled,
                   bvOffRotations, regExpInfo, classifiedByRole, schedulesByStatus>>

\* getBlockInfoByRoleForDate after the scan, then the first role is started
BlocksScanReturns ==
    /\ call[<<0, "blocks">>] = "pending"
    /\ LET blocks == ScanBlocks(store.blocks, FormatDate(date))
       IN IF Len(blocks) = 0
          THEN /\ call' = [call EXCEPT ![<<0, "blocks">>] = "norows"]
               /\ thrown' = Append(thrown,
                     StatusError(404, "Could not find a schedule block for that date"))
               /\ responses' = Append(responses,
                     Catch(StatusError(404, "Could not find a schedule block for that date")))
               /\ pc' = "done"
               /\ UNCHANGED <<blockInfoByRole, roleIdx, schedulesByStatus>>
          ELSE LET infoByRole == ReduceBlocks(<<>>, blocks, date)
               IN /\ blockInfoByRole' = infoByRole
                  /\ schedulesByStatus' = EmptySchedulesByStatus
                  /\ roleIdx' = 1
                  /\ call' = StartRole([call EXCEPT ![<<0, "blocks">>] = "ok"],
                                       infoByRole[1].k, 1)
                  /\ pc' = "awaitFetch"
                  /\ UNCHANGED <<responses, thrown>>
    /\ UNCHANGED <<date, store, schedules, rotationsByScheduled, bvOffRotations, regExpInfo,
                   classifiedByRole>>

BlocksScanFails ==
    \E m \in StoreErrorMessages : Rejects(<<0, "blocks">>, "failed", OtherError(m))

\* the rule builder goes ahead as soon as the roster or the facts are there
FetchFulfilledEither(calls, r) ==
    \/ calls[<<r, "schedules">>] = "ok"
    \/ calls[<<r, "templates">>] = "ok"

\* both Promise.all of the current role are fulfilled once these calls are
FetchFulfilled(calls, r) ==
    /\ calls[<<r, "schedules">>] = "ok"
    /\ calls[<<r, "templates">>] = "ok"
    /\ calls[<<r, "bayview">>] \in {"ok", "unissued"}

\* a fetch of the current role is fulfilled: when it was the last one and the
\* handler still waits, getRegexForRotationsByScheduled sends its scan
Fulfils(c) ==
    LET settled == [call EXCEPT ![c] = "ok"]
    IN IF Awaited(c) /\ FetchFulfilled(settled, c[1])
       THEN /\ call' = [settled EXCEPT ![<<c[1], "serviceRegex">>] = "pending"]
            /\ pc' = "awaitRegex"
       ELSE /\ call' = settled
            /\ UNCHANGED pc

\* getSchedulesForRoleAndBlockName after its scan
SchedulesScanReturns ==
    \E r \in {1, 2} :
        /\ call[<<r, "schedules">>] = "pending"
        /\ schedules' =
              ReduceSchedules(<<>>,
                  ScanSchedules(store.schedules, RoleAt(r),
                                getBlockNameFromBlockInfo(blockInfoByRole[r].v)),
                  RoleAt(r))
        /\ Fulfils(<<r, "schedules">>)
        /\ UNCHANGED <<date, store, blockInfoByRole, roleIdx, rotationsByScheduled,
                       bvOffRotations, regExpInfo, classifiedByRole, schedulesByStatus,
                       responses, thrown>>

SchedulesScanFails ==
    \E r \in {1, 2}, m \in StoreErrorMessages :
        Rejects(<<r, "schedules">>, "failed", OtherError(m))

\* getOffAndMaybeOffRotationsForRole after its scan; the Bayview facts are
\* merged in when they are already there
TemplatesScanReturns ==
    \E r \in {1, 2} :
        /\ call[<<r, "templates">>] = "pending"
        /\ LET primary == OffAndMaybeOffRotations(
                              ScanTemplates(store.templates, RoleAt(r),
                                            getIsAFromBlockInfo(blockInfoByRole[r].v),
                                            getDayNumberFromBlockInfo(blockInfoByRole[r].v)))
           IN rotationsByScheduled' =
                 IF call[<<r, "bayview">>] = "ok"
                 THEN MergeBayview(primary, bvOffRotations)
                 ELSE primary
        /\ Fulfils(<<r, "templates">>)
        /\ UNCHANGED <<date, store, blockInfoByRole, roleIdx, schedules, bvOffRotations,
                       regExpInfo, classifiedByRole, schedulesByStatus, responses, thrown>>

TemplatesScanFails ==
    \E r \in {1, 2}, m \in StoreErrorMessages :
        Rejects(<<r, "templates">>, "failed", OtherError(m))

\* getBayviewOffRotations after its query found the day's row; the facts are
\* merged into the primary ones when those are already there
BayviewQueryReturns ==
    \E r \in {1, 2} :
        /\ call[<<r, "bayview">>] = "pending"
        /\ LET templates == QueryBayview(store.bayview, FormatDate(date))
           IN /\ Len(templates) # 0
              /\ LET facts == BayviewOffRotations(<<>>, templates[1],
                                                  BayviewColumns(templates[1]))
                 IN /\ bvOffRotations' = facts
                    /\ rotationsByScheduled' =
                          IF call[<<r, "templates">>] = "ok"
                          THEN MergeBayview(rotationsByScheduled, facts)
                          ELSE rotationsByScheduled
        /\ Fulfils(<<r, "bayview">>)
        /\ UNCHANGED <<date, store, blockInfoByRole, roleIdx, schedules, regExpInfo,
                       classifiedByRole, schedulesByStatus, responses, thrown>>

\* getBayviewOffRotations after its query found no row: NotFound
BayviewQueryFindsNothing ==
    \E r \in {1, 2} :
        /\ Len(QueryBayview(store.bayview, FormatDate(date))) = 0
        /\ Rejects(<<r, "bayview">>, "norows",
                   StatusError(404, "Could not find any Bayview schedules for given date"))

BayviewQueryFails ==
    \E r \in {1, 2}, m \in StoreErrorMessages :
        Rejects(<<r, "bayview">>, "failed", OtherError(m))

\* getRegexForRotationsByScheduled after its scan, classifySchedulesByStatus,
\* the merge into the aggregate, and then the next role, whose pipeline starts
\* with fresh locals, or the response
ServiceRegexScanReturns ==
    \E r \in {1, 2} :
        /\ call[<<r, "serviceRegex">>] = "pending"
        /\ ServicesOf(rotationsByScheduled) # <<>>
        /\ LET rules == getRegexForRotationsByScheduled(
                            ScanServiceRegex(store.serviceRegex,
                                             ServicesOf(rotationsByScheduled)),
                            rotationsByScheduled)
               classified == classifySchedulesByStatus(rules, schedules)
               aggregate == MergeClassified(schedulesByStatus, classified)
               settled == [call EXCEPT ![<<r, "serviceRegex">>] = "ok"]
           IN /\ regExpInfo' = rules
              /\ IF ClassifyThrows(rules, schedules)
                 THEN /\ thrown' = Append(thrown, OtherError("Cannot read properties of null"))
                      /\ responses' = Append(responses,
                            Catch(OtherError("Cannot read properties of null")))
                      /\ pc' = "done"
                      /\ call' = settled
                      /\ UNCHANGED <<classifiedByRole, schedulesByStatus, roleIdx, schedules,
                                     rotationsByScheduled, bvOffRotations>>
                 ELSE /\ classifiedByRole' = ObjSet(classifiedByRole, RoleAt(r), classified)
                      /\ schedulesByStatus' = aggregate
                      /\ UNCHANGED thrown
                      /\ IF r < Len(blockInfoByRole)
                         THEN /\ roleIdx' = r + 1
                              /\ call' = StartRole(settled, RoleAt(r + 1), r + 1)
                              /\ pc' = "awaitFetch"
                              /\ schedules' = <<>>
                              /\ rotationsByScheduled' = <<>>
                              /\ bvOffRotations' = <<>>
                              /\ UNCHANGED responses
                         ELSE /\ responses' = Append(responses,
                                    SuccessResponse(date, blockInfoByRole, aggregate))
                              /\ pc' = "done"
                              /\ call' = settled
                              /\ UNCHANGED <<roleIdx, schedules, rotationsByScheduled,
                                             bvOffRotations>>
        /\ UNCHANGED <<date, store, blockInfoByRole>>

\* getRegexForRotationsByScheduled with no service in either fact map: the
\* filter expression reads "service IN ()" and ExpressionAttributeValues is
\* empty, a request the store rejects
ServiceRegexScanRejected ==
    \E r \in {1, 2} :
        /\ call[<<r, "serviceRegex">>] = "pending"
        /\ ServicesOf(rotationsByScheduled) = <<>>
        /\ Rejects(<<r, "serviceRegex">>, "invalid", OtherError(InvalidExpressionMessage))

ServiceRegexScanFails ==
    \E r \in {1, 2}, m \in StoreErrorMessages :
        Rejects(<<r, "serviceRegex">>, "failed", OtherError(m))

Next ==
    \/ (ReceiveRequest /\ UNCHANGED <<cvars, suspended>>)
    \/ (BlocksScanReturns /\ UNCHANGED <<cvars, suspended>>)
    \/ (BlocksScanFails /\ UNCHANGED <<cvars, suspended>>)
    \/ (SchedulesScanReturns /\ UNCHANGED <<cvars, suspended>>)
    \/ (SchedulesScanFails /\ UNCHANGED <<cvars, suspended>>)
    \/ (TemplatesScanReturns /\ UNCHANGED <<cvars, suspended>>)
    \/ (TemplatesScanFails /\ UNCHANGED <<cvars, suspended>>)
    \/ (BayviewQueryReturns /\ UNCHANGED <<cvars, suspended>>)
    \/ (BayviewQueryFindsNothing /\ UNCHANGED <<cvars, suspended>>)
    \/ (BayviewQueryFails /\ UNCHANGED <<cvars, suspended>>)
    \/ (ServiceRegexScanReturns /\ UNCHANGED <<cvars, suspended>>)
    \/ (ServiceRegexScanRejected /\ UNCHANGED <<cvars, suspended>>)
    \/ (ServiceRegexScanFails /\ UNCHANGED <<cvars, suspended>>)

Spec == Init /\ [][Next]_vars

\* ------------------------------------------------------------------------
\* Two requests on one event loop, against one store
\* ------------------------------------------------------------------------
\* every binding of the handler lives in its closure (index.js 35-75)
Locals ==
    [date |-> date, pc |-> pc, blockInfoByRole |-> blockInfoByRole, roleIdx |-> roleIdx,
     call |-> call, schedules |-> schedules, rotationsByScheduled |-> rotationsByScheduled,
     bvOffRotations |-> bvOffRotations, regExpInfo |-> regExpInfo,
     classifiedByRole |-> classifiedByRole, schedulesByStatus |-> schedulesByStatus,
     responses |-> responses, thrown |-> thrown]

\* the locals of a request that has just arrived
FreshLocals(thisDay) ==
    [date |-> thisDay, pc |-> "start", blockInfoByRole |-> <<>>, roleIdx |-> 0,
     call |-> [c \in Calls |-> "unissued"], schedules |-> <<>>,
     rotationsByScheduled |-> <<>>, bvOffRotations |-> <<>>, regExpInfo |-> <<>>,
     classifiedByRole |-> <<>>, schedulesByStatus |-> <<>>, responses |-> <<>>,
     thrown |-> <<>>]

\* the aggregate declared at module level: one array set for every request
ResumeSharingAggregate(saved, running) ==
    [saved EXCEPT !.schedulesByStatus = running.schedulesByStatus]

\* what a handler finds when it resumes after an await: its own bindings,
\* whatever the handler that ran meanwhile did to its own
Resume(saved, running) == saved

\* blocks tables with both roles: the roles' intervals follow each other, or
\* coincide
RequestsBlocksTables ==
    {<<[role |-> ROLE_INTERN, block |-> <<"1", "A">>,
        start_date |-> FormatDate(1), end_date |-> FormatDate(2)],
       [role |-> ROLE_RESIDENT, block |-> <<"1", "B">>,
        start_date |-> FormatDate(3), end_date |-> FormatDate(4)]>>,
     <<[role |-> ROLE_RESIDENT, block |-> <<"1", "A">>,
        start_date |-> FormatDate(2), end_date |-> FormatDate(3)],
       [role |-> ROLE_INTERN, block |-> <<"1", "B">>,
        start_date |-> FormatDate(2), end_date |-> FormatDate(3)]>>}

InitRequests ==
    /\ date \in (BOUND_MIN_DATE)..(BOUND_MAX_DATE + 1)
    /\ store \in [blocks : RequestsBlocksTables, schedules : {SchedulesTable},
                  templates : {TemplatesTable}, bayview : {BayviewTable},
                  serviceRegex : {ServiceRegexTable}]
    /\ pc = "start"
    /\ IdleHandler
    /\ IdleClassifier
    /\ IdleHelper
    /\ suspended \in {FreshLocals(d) : d \in (BOUND_MIN_DATE)..(BOUND_MAX_DATE + 1)}

\* the running handler stands at an await (or has answered) and the event
\* loop goes on with the other request's handler
SwitchRequest ==
    /\ suspended # <<>>
    /\ LET resumed == Resume(suspended, Locals)
       IN /\ date' = resumed.date
          /\ pc' = resumed.pc
          /\ blockInfoByRole' = resumed.blockInfoByRole
          /\ roleIdx' = resumed.roleIdx
          /\ call' = resumed.call
          /\ schedules' = resumed.schedules
          /\ rotationsByScheduled' = resumed.rotationsByScheduled
          /\ bvOffRotations' = resumed.bvOffRotations
          /\ regExpInfo' = resumed.regExpInfo
          /\ classifiedByRole' = resumed.classifiedByRole
          /\ schedulesByStatus' = resumed.schedulesByStatus
          /\ responses' = resumed.responses
          /\ thrown' = resumed.thrown
    /\ suspended' = Locals
    /\ UNCHANGED <<store, cvars>>

NextRequests ==
    \/ (ReceiveRequest /\ UNCHANGED <<cvars, suspended>>)
    \/ (BlocksScanReturns /\ UNCHANGED <<cvars, suspended>>)
    \/ (BlocksScanFails /\ UNCHANGED <<cvars, suspended>>)
    \/ (SchedulesScanReturns /\ UNCHANGED <<cvars, suspended>>)
    \/ (SchedulesScanFails /\ UNCHANGED <<cvars, suspended>>)
    \/ (TemplatesScanReturns /\ UNCHANGED <<cvars, suspended>>)
    \/ (TemplatesScanFails /\ UNCHANGED <<cvars, suspended>>)
    \/ (BayviewQueryReturns /\ UNCHANGED <<cvars, suspended>>)
    \/ (BayviewQueryFindsNothing /\ UNCHANGED <<cvars, suspended>>)
    \/ (BayviewQueryFails /\ UNCHANGED <<cvars, suspended>>)
    \/ (ServiceRegexScanReturns /\ UNCHANGED <<cvars, suspended>>)
    \/ (ServiceRegexScanRejected /\ UNCHANGED <<cvars, suspended>>)
    \/ (ServiceRegexScanFails /\ UNCHANGED <<cvars, suspended>>)
    \/ SwitchRequest

SpecRequests == InitRequests /\ [][NextRequests]_vars

\* ------------------------------------------------------------------------
\* The classifiers on their own: any rule map, any roster
\* ------------------------------------------------------------------------
\* names as strings of code units
Names == {<<1>>, <<1, 2>>, <<2>>, <<2, 1>>}

Assignments ==
    {<<"ccu", "a">>, <<"Janeway", "B">>, <<"CCU", "A", "Janeway", "B">>, <<"CCU", "B">>}

Expressions == {<<"CCU", "A">>, <<"Janeway", "B">>}

Patterns ==
    {NewRegExp(<<e>>) : e \in Expressions}
        \cup {NewRegExp(<<<<"CCU", "A">>, <<"Janeway", "B">>>>)}

CategoryKeys == {CLASSIFICATION_KEY_OFF, CLASSIFICATION_KEY_MAYBE_OFF}

\* objects with distinct keys, at most n entries
ObjectsOver(keys, vals, n) ==
    UNION {{obj \in [1..m -> [k : keys, v : vals]] :
                \A i, j \in 1..m : obj[i].k = obj[j].k => i = j} : m \in 0..n}

RuleMaps == ObjectsOver(CategoryKeys, Patterns, 2)

Rosters == ObjectsOver(Names, Assignments, MaxRoster)

\* the roster as getSchedulesForRoleAndBlockName shapes it
WithRole(roster, role) ==
    [i \in 1..Len(roster) |->
        [k |-> roster[i].k, v |-> [role |-> role, assignment |-> roster[i].v]]]

InitClassify ==
    /\ cRegExpInfo \in RuleMaps
    /\ cSchedules \in Rosters
    /\ cRole \in {ROLE_INTERN, ROLE_RESIDENT}
    /\ cClassified = <<>>
    /\ cCalled = "none"
    /\ date = BOUND_MIN_DATE
    /\ store = [blocks |-> <<>>, schedules |-> SchedulesTable, templates |-> TemplatesTable,
                bayview |-> BayviewTable, serviceRegex |-> ServiceRegexTable]
    /\ pc = "idle"
    /\ IdleHandler
    /\ IdleHelper
    /\ suspended = <<>>

CallClassifyRoleAware ==
    /\ cCalled = "none"
    /\ cClassified' = classifySchedulesByStatus(cRegExpInfo, WithRole(cSchedules, cRole))
    /\ cCalled' = "roleAware"
    /\ UNCHANGED <<cRegExpInfo, cSchedules, cRole, hvars, fvars, suspended>>

CallClassifySimple ==
    /\ cCalled = "none"
    /\ cClassified' = classifySchedulesByStatusSimple(cRegExpInfo, cSchedules)
    /\ cCalled' = "simple"
    /\ UNCHANGED <<cRegExpInfo, cSchedules, cRole, hvars, fvars, suspended>>

NextClassify == CallClassifyRoleAware \/ CallClassifySimple

SpecClassify == InitClassify /\ [][NextClassify]_vars

\* ------------------------------------------------------------------------
\* The block resolvers on their own: any blocks table, any date
\* ------------------------------------------------------------------------
\* a day, two weeks, and more than two weeks
BlockDays == {1, 14, MaxBlockDays}

\* block records of any of these lengths, named or not
LongBlockRecords ==
    {[role |-> r, block |-> b, start_date |-> FormatDate(d),
      end_date |-> FormatDate(d + n - 1)] :
        r \in {ROLE_INTERN, ROLE_RESIDENT}, b \in BlockNames \cup {undefined},
        d \in 1..2, n \in BlockDays}

\* blocks tables in scan order: at most one record per role
LongBlocksTables ==
    {<<>>} \cup {<<b>> : b \in LongBlockRecords}
        \cup {<<b1, b2>> : b1 \in {b \in LongBlockRecords : b.role = ROLE_INTERN},
                           b2 \in {b \in LongBlockRecords : b.role = ROLE_RESIDENT}}
        \cup {<<b2, b1>> : b1 \in {b \in LongBlockRecords : b.role = ROLE_INTERN},
                           b2 \in {b \in LongBlockRecords : b.role = ROLE_RESIDENT}}

\* no request is being handled and no classifier is called
IdleRequest ==
    /\ date = BOUND_MIN_DATE
    /\ store = [blocks |-> <<>>, schedules |-> SchedulesTable, templates |-> TemplatesTable,
                bayview |-> BayviewTable, serviceRegex |-> ServiceRegexTable]
    /\ pc = "idle"
    /\ IdleHandler
    /\ IdleClassifier
    /\ suspended = <<>>

InitResolve ==
    /\ fIn \in [thisDay : 1..(2 + MaxBlockDays), blocks : LongBlocksTables]
    /\ fOut = <<>>
    /\ fThrown = <<>>
    /\ fCalled = "none"
    /\ IdleRequest

\* getBlockInfoByRoleForDate: the scan, the NotFound, the reduce
CallGetBlockInfoByRoleForDate ==
    /\ fCalled = "none"
    /\ LET blocks == ScanBlocks(fIn.blocks, FormatDate(fIn.thisDay))
       IN IF Len(blocks) = 0
          THEN /\ fThrown' = <<StatusError(404, "Could not find a schedule block for that date")>>
               /\ fOut' = <<>>
          ELSE /\ fOut' = ReduceBlocks(<<>>, blocks, fIn.thisDay)
               /\ fThrown' = <<>>
    /\ fCalled' = "getBlockInfoByRoleForDate"
    /\ UNCHANGED <<fIn, hvars, kvars, suspended>>

\* getBlockInfoForDate, the role-unaware resolver: the scan, the NotFound, the
\* BlockInfo of the first record
CallGetBlockInfoForDate ==
    /\ fCalled = "none"
    /\ LET blocks == ScanBlocks(fIn.blocks, FormatDate(fIn.thisDay))
       IN IF Len(blocks) = 0
          THEN /\ fThrown' = <<StatusError(404, "Could not find a schedule block for that date")>>
               /\ fOut' = <<>>
          ELSE IF BlockInfoForDateThrows(blocks)
          THEN /\ fThrown' = <<OtherError("Cannot read properties of undefined")>>
               /\ fOut' = <<>>
          ELSE /\ fOut' = <<BlockInfoForDate(blocks, fIn.thisDay)>>
               /\ fThrown' = <<>>
    /\ fCalled' = "getBlockInfoForDate"
    /\ UNCHANGED <<fIn, hvars, kvars, suspended>>

NextResolve == CallGetBlockInfoByRoleForDate \/ CallGetBlockInfoForDate

SpecResolve == InitResolve /\ [][NextResolve]_vars

\* ------------------------------------------------------------------------
\* The primary fetch on its own: any rows returned by the templates scan
\* ------------------------------------------------------------------------
\* the rows the scan can return: its filter lets only OFF and MAYBE through
TemplateRows ==
    [service : {"CCU", "Janeway"}, position : {"A", "B"},
     scheduled : {SCHEDULED_OFF, SCHEDULED_MAYBE_OFF}]

InitFetch ==
    /\ fIn \in [rows : UNION {[1..n -> TemplateRows] : n \in 0..MaxRows}]
    /\ fOut = <<>>
    /\ fThrown = <<>>
    /\ fCalled = "none"
    /\ IdleRequest

\* getOffAndMaybeOffRotationsForRole of db.js after its scan
CallGetOffAndMaybeOffRotationsForRole ==
    /\ fCalled = "none"
    /\ fOut' = OffAndMaybeOffRotations(fIn.rows)
    /\ fCalled' = "getOffAndMaybeOffRotationsForRole"
    /\ UNCHANGED <<fIn, fThrown, hvars, kvars, suspended>>

\* getOffAndMaybeOffRotationsForRole of templates.js after its scan
CallTemplatesGetOffAndMaybeOffRotationsForRole ==
    /\ fCalled = "none"
    /\ fOut' = TemplatesOffAndMaybeOffRotations(fIn.rows)
    /\ fCalled' = "templates.getOffAndMaybeOffRotationsForRole"
    /\ UNCHANGED <<fIn, fThrown, hvars, kvars, suspended>>

NextFetch ==
    CallGetOffAndMaybeOffRotationsForRole \/ CallTemplatesGetOffAndMaybeOffRotationsForRole

SpecFetch == InitFetch /\ [][NextFetch]_vars

\* ------------------------------------------------------------------------
\* Properties of the classifiers
\* ------------------------------------------------------------------------
\* the roster entry i as the role-aware classifier reports it
ReportedEntry(i) ==
    [name |-> cSchedules[i].k, role |-> cRole, assignment |-> cSchedules[i].v]

\* the places <<category index, array index>> of a classification holding entry e
PlacesOf(classified, e) ==
    {p \in UNION {{<<c, j>> : j \in 1..Len(classified[c].v)} : c \in 1..Len(classified)} :
        classified[p[1]].v[p[2]] = e}

\* the indexes of the categories of the rule map whose pattern matches
MatchingCategories(rules, assignment) ==
    {c \in 1..Len(rules) : RegexTest(rules[c].v, assignment)}

Max(S) == CHOOSE x \in S : \A y \in S : y <= x

\* C1: the role-aware classifier puts every roster entry in exactly one
\* category array (the default bucket counted), and nothing else in any array
C1_ExactlyOneCategory ==
    cCalled = "roleAware" =>
        /\ \A i \in 1..Len(cSchedules) :
              Cardinality(PlacesOf(cClassified, ReportedEntry(i))) = 1
        /\ \A c \in 1..Len(cClassified) : \A j \in 1..Len(cClassified[c].v) :
              \E i \in 1..Len(cSchedules) : cClassified[c].v[j] = ReportedEntry(i)
        /\ \A c, d \in 1..Len(cClassified) : cClassified[c].k = cClassified[d].k => c = d

\* an entry matching two categories has been classified
C1_Witness ==
    /\ cCalled = "roleAware"
    /\ \E i \in 1..Len(cSchedules) :
          Cardinality(MatchingCategories(cRegExpInfo, cSchedules[i].v)) = 2
    /\ \E i \in 1..Len(cSchedules) : MatchingCategories(cRegExpInfo, cSchedules[i].v) = {}

\* C2: an entry whose assignment matches two or more categories is placed in
\* the one that comes last in the rule map's insertion order
C2_LastMatchWins ==
    cCalled = "roleAware" =>
        \A i \in 1..Len(cSchedules) :
            LET m == MatchingCategories(cRegExpInfo, cSchedules[i].v)
            IN Cardinality(m) >= 2 =>
                \A p \in PlacesOf(cClassified, ReportedEntry(i)) :
                    cClassified[p[1]].k = cRegExpInfo[Max(m)].k

\* an entry matching both categories, with maybeOff inserted before off
C2_Witness ==
    /\ cCalled = "roleAware"
    /\ Len(cRegExpInfo) = 2
    /\ cRegExpInfo[2].k = CLASSIFICATION_KEY_OFF
    /\ \E i \in 1..Len(cSchedules) :
          /\ MatchingCategories(cRegExpInfo, cSchedules[i].v) = {1, 2}
          /\ PlacesOf(cClassified, ReportedEntry(i)) # {}

\* C3: an entry is in the default bucket iff its assignment matches no
\* category's pattern, and the default bucket is always in the result
C3_DefaultBucket ==
    cCalled = "roleAware" =>
        /\ ObjHas(cClassified, CLASSIFICATION_KEY_LIKELY_NOT_OFF)
        /\ \A i \in 1..Len(cSchedules) :
              (\E j \in 1..Len(ObjGet(cClassified, CLASSIFICATION_KEY_LIKELY_NOT_OFF)) :
                    ObjGet(cClassified, CLASSIFICATION_KEY_LIKELY_NOT_OFF)[j] = ReportedEntry(i))
              <=> MatchingCategories(cRegExpInfo, cSchedules[i].v) = {}

\* one entry fell into the default bucket and another one did not
C3_Witness ==
    /\ cCalled = "roleAware"
    /\ cRegExpInfo # <<>>
    /\ \E i, j \in 1..Len(cSchedules) :
          /\ MatchingCategories(cRegExpInfo, cSchedules[i].v) = {}
          /\ MatchingCategories(cRegExpInfo, cSchedules[j].v) # {}
          /\ Len(ObjGet(cClassified, CLASSIFICATION_KEY_LIKELY_NOT_OFF)) = 1

\* a <= b on names, by code units
NameLe(a, b) == a = b \/ StrGt(b, a)

SimpleEntry(i) == [name |-> cSchedules[i].k, assignment |-> cSchedules[i].v]

\* C11: the simple classifier reports, under every category of the rule map
\* and under no other key, exactly the roster entries whose assignment matches
\* that category's pattern, once each, whatever the other categories match;
\* there is no default bucket
C11_EveryMatchingCategory ==
    cCalled = "simple" =>
        /\ ObjKeys(cClassified) = ObjKeys(cRegExpInfo)
        /\ ~ObjHas(cClassified, CLASSIFICATION_KEY_LIKELY_NOT_OFF)
        /\ \A c \in 1..Len(cRegExpInfo) :
              /\ \A i \in 1..Len(cSchedules) :
                    Cardinality({j \in 1..Len(cClassified[c].v) :
                                    cClassified[c].v[j] = SimpleEntry(i)})
                        = (IF RegexTest(cRegExpInfo[c].v, cSchedules[i].v) THEN 1 ELSE 0)
              /\ \A j \in 1..Len(cClassified[c].v) :
                    \E i \in 1..Len(cSchedules) : cClassified[c].v[j] = SimpleEntry(i)

\* one entry was reported under both categories and another under none
C11_Witness ==
    /\ cCalled = "simple"
    /\ Len(cClassified) = 2
    /\ \E i, j \in 1..Len(cSchedules) :
          /\ PlacesOf(cClassified, SimpleEntry(i)) = {<<1, 1>>, <<2, 1>>}
          /\ PlacesOf(cClassified, SimpleEntry(j)) = {}

\* ------------------------------------------------------------------------
\* Properties of the request handler
\* ------------------------------------------------------------------------
\* the block records whose interval holds the requested day, both ends included
ContainingBlocks ==
    {i \in 1..Len(store.blocks) :
        /\ ParseDate(store.blocks[i].start_date) <= date
        /\ date <= ParseDate(store.blocks[i].end_date)}

BlocksScanReturned == call[<<0, "blocks">>] \in {"ok", "norows"}

NoBlockResponse ==
    [status |-> 404, message |-> "Could not find a schedule block for that date",
     payload |-> <<>>]

NoBayviewResponse ==
    [status |-> 404, message |-> "Could not find any Bayview schedules for given date",
     payload |-> <<>>]

\* C4: once the block scan has answered, the blocks are resolved iff some
\* record's interval holds the date, ends included; otherwise the request
\* fails with the 404 NotFound and no BlockInfo exists
C4_BlockResolution ==
    BlocksScanReturned =>
        /\ IsSupportedDate(date)
        /\ (ContainingBlocks # {}) <=> (call[<<0, "blocks">>] = "ok" /\ blockInfoByRole # <<>>)
        /\ ContainingBlocks = {} =>
              /\ blockInfoByRole = <<>>
              /\ responses = <<NoBlockResponse>>
              /\ thrown[1].isStatusError /\ thrown[1].statusCode = 404

\* a block was resolved for a date that is the last day of its interval
C4_Witness ==
    /\ call[<<0, "blocks">>] = "ok"
    /\ \E i \in ContainingBlocks : ParseDate(store.blocks[i].end_date) = date
    /\ blockInfoByRole # <<>>

\* C5: the day number of every resolved block is the number of days from the
\* block's start date to the requested date, plus one; one on the start date
C5_DayNumber ==
    \A r \in 1..Len(blockInfoByRole) :
        \E i \in ContainingBlocks :
            /\ store.blocks[i].role = blockInfoByRole[r].k
            /\ blockInfoByRole[r].v.dayNumber = (date - ParseDate(store.blocks[i].start_date)) + 1
            /\ ParseDate(store.blocks[i].start_date) = date => blockInfoByRole[r].v.dayNumber = 1

\* two roles resolved, one on the first day of its block and one on the second
C5_Witness ==
    /\ Len(blockInfoByRole) = 2
    /\ blockInfoByRole[1].v.dayNumber = 1
    /\ blockInfoByRole[2].v.dayNumber = 2

\* C6 as stated: whenever the Bayview lookup has found no row, the request is
\* answered with the 404 NotFound
C6_BayviewNotFoundAlways404 ==
    \A r \in {1, 2} :
        call[<<r, "bayview">>] = "norows" => responses = <<NoBayviewResponse>>

\* C6 amended: when the Bayview lookup has found no row and no store call of
\* the request had failed before it (the NotFound is the first error raised),
\* the request is answered with the 404 NotFound, whether the primary fetch
\* has completed or not
C6_BayviewNotFound404UnlessFailure ==
    \A r \in {1, 2} :
        (call[<<r, "bayview">>] = "norows" /\ thrown[1].isStatusError)
            => /\ RoleAt(r) = ROLE_RESIDENT
               /\ thrown[1].statusCode = 404
               /\ responses = <<NoBayviewResponse>>

\* the lookup found no row after the primary fetch and the roster fetch had
\* both completed
C6_Witness ==
    \E r \in {1, 2} :
        /\ call[<<r, "bayview">>] = "norows"
        /\ call[<<r, "templates">>] = "ok"
        /\ call[<<r, "schedules">>] = "ok"
        /\ responses = <<NoBayviewResponse>>

\* C7: an error response answers the first error raised: a StatusError with
\* its own status code (400 invalid date, 404 no block, 404 no Bayview
\* schedule), any other error with 500, and always with the error's message
C7_ErrorStatus ==
    /\ thrown # <<>> =>
          /\ Len(responses) = 1
          /\ responses[1].message = thrown[1].message
          /\ responses[1].status =
                (IF thrown[1].isStatusError THEN thrown[1].statusCode ELSE 500)
    /\ (pc = "done" /\ ~IsSupportedDate(date)) => responses[1].status = 400
    /\ call[<<0, "blocks">>] = "norows" => responses[1].status = 404
    /\ \A c \in Calls :
          (call[c] = "failed" /\ Len(thrown) = 1) =>
              /\ responses[1].status = 500
              /\ responses[1].message \in StoreErrorMessages

\* a store call of the second role failed and was answered 500 with its message
C7_Witness ==
    /\ Len(thrown) = 1
    /\ call[<<2, "templates">>] = "failed"
    /\ responses = <<[status |-> 500, message |-> "ThrottlingException", payload |-> <<>>]>>

\* the roster rows of a role as the response reports them for a block
RosterEntries(role, blockName) ==
    {[name |-> store.schedules[i].name, role |-> role,
      assignment |-> ObjGet(store.schedules[i].cols, blockName)] :
        i \in {j \in 1..Len(store.schedules) : store.schedules[j].role = role}}

\* C8: at most one response is ever sent and the handler ends with exactly
\* one; a 200 carries every roster entry of every role with an active block
\* and follows no failure; any other response carries no data; and once any
\* error was raised the response is an error response
C8_AllOrNothing ==
    /\ Len(responses) <= 1
    /\ pc = "done" <=> Len(responses) = 1
    /\ (pc \notin {"start", "done"}) => \E c \in Calls : call[c] = "pending"
    /\ \A n \in 1..Len(responses) :
          IF responses[n].status = 200
          THEN /\ thrown = <<>>
               /\ \A c \in Calls : call[c] \in {"ok", "unissued"}
               /\ Len(responses[n].payload) = 1
               /\ ContainingBlocks # {}
               /\ \A i \in ContainingBlocks :
                     \A e \in RosterEntries(store.blocks[i].role, store.blocks[i].block) :
                         Cardinality(PlacesOf(responses[n].payload[1].schedules, e)) = 1
          ELSE /\ responses[n].payload = <<>>
               /\ thrown # <<>>
    /\ thrown # <<>> => (Len(responses) = 1 /\ responses[1].status # 200)

\* the first role was classified, then a call of the second role failed
C8_Witness ==
    /\ Len(classifiedByRole) = 1
    /\ \E n \in CallNames : call[<<2, n>>] = "failed"
    /\ Len(responses) = 1
    /\ responses[1].status = 500
    /\ responses[1].payload = <<>>

\* C10: the rule map holds no null pattern: a category is in the map exactly
\* when it collected an expression, and the classifier never fails on null
C10_NoNullPattern ==
    /\ \A i \in 1..Len(regExpInfo) :
          ~regExpInfo[i].v.null /\ Len(regExpInfo[i].v.alts) > 0
    /\ \A r \in {1, 2} :
          (call[<<r, "serviceRegex">>] = "ok" /\ roleIdx = r) =>
              LET rows == ScanServiceRegex(store.serviceRegex, ServicesOf(rotationsByScheduled))
              IN /\ ObjHas(regExpInfo, CLASSIFICATION_KEY_OFF)
                    <=> ExpArray(rows, rotationsByScheduled, FALSE) # <<>>
                 /\ ObjHas(regExpInfo, CLASSIFICATION_KEY_MAYBE_OFF)
                    <=> ExpArray(rows, rotationsByScheduled, TRUE) # <<>>
    /\ \A n \in 1..Len(thrown) : thrown[n].message # "Cannot read properties of null"

\* a rule map was built with one category left out, for a roster with entries
C10_Witness ==
    /\ \E r \in {1, 2} : call[<<r, "serviceRegex">>] = "ok" /\ roleIdx = r
    /\ Len(regExpInfo) = 1
    /\ schedules # <<>>

\* the facts of the r-th role as the primary source alone gives them
PrimaryRotations(r) ==
    OffAndMaybeOffRotations(
        ScanTemplates(store.templates, RoleAt(r),
                      getIsAFromBlockInfo(blockInfoByRole[r].v),
                      getDayNumberFromBlockInfo(blockInfoByRole[r].v)))

\* C12: once a role's fetches are started, its Bayview query is issued iff the
\* role is the resident role; an intern's pipeline never issues it, so the
\* Bayview NotFound is only ever raised for a resident, and an intern's facts
\* are the primary source's alone
C12_BayviewOnlyForResident ==
    /\ \A r \in {1, 2} :
          r > Len(blockInfoByRole) => call[<<r, "bayview">>] = "unissued"
    /\ \A r \in 1..Len(blockInfoByRole) :
          /\ call[<<r, "templates">>] # "unissued" =>
                (call[<<r, "bayview">>] # "unissued" <=> RoleAt(r) = ROLE_RESIDENT)
          /\ RoleAt(r) = ROLE_INTERN =>
                /\ call[<<r, "bayview">>] = "unissued"
                /\ (roleIdx = r /\ call[<<r, "templates">>] = "ok") =>
                      rotationsByScheduled = PrimaryRotations(r)
    /\ \A n \in 1..Len(thrown) :
          thrown[n].message = NoBayviewResponse.message =>
              \E r \in 1..Len(blockInfoByRole) :
                  RoleAt(r) = ROLE_RESIDENT /\ call[<<r, "bayview">>] = "norows"

\* an intern was classified on a date without a Bayview row, and then the
\* Bayview query of the resident that followed found nothing
C12_Witness ==
    /\ Len(blockInfoByRole) = 2
    /\ RoleAt(1) = ROLE_INTERN
    /\ call[<<1, "serviceRegex">>] = "ok"
    /\ call[<<1, "bayview">>] = "unissued"
    /\ call[<<2, "bayview">>] = "norows"

\* ------------------------------------------------------------------------
\* Properties of the block resolvers
\* ------------------------------------------------------------------------
\* the records whose interval holds the day, both ends included, in scan order
MatchingBlocks ==
    SelectSeq(fIn.blocks, LAMBDA b :
        ParseDate(b.start_date) <= fIn.thisDay /\ fIn.thisDay <= ParseDate(b.end_date))

\* the number of days of a record's interval
BlockLength(b) == ParseDate(b.end_date) - ParseDate(b.start_date) + 1

ResolverCalled == fCalled \in {"getBlockInfoByRoleForDate", "getBlockInfoForDate"}

\* the record a returned BlockInfo was built from: the role's record, or the
\* first record for the role-unaware resolver
RecordOf(n) ==
    IF fCalled = "getBlockInfoByRoleForDate"
    THEN CHOOSE b \in {MatchingBlocks[i] : i \in 1..Len(MatchingBlocks)} : b.role = fOut[n].k
    ELSE MatchingBlocks[1]

\* the n-th BlockInfo a resolver returned
InfoAt(n) == IF fCalled = "getBlockInfoByRoleForDate" THEN fOut[n].v ELSE fOut[n]

ExpectedInfo(b) ==
    [blockName |-> b.block,
     isA |-> IF b.block = undefined THEN "undefined"
             ELSE IF \E i \in 1..Len(b.block) : b.block[i] = "A" THEN "true" ELSE "false",
     dayNumber |-> (fIn.thisDay - ParseDate(b.start_date)) + 1]

\* C18: getBlockInfoByRoleForDate returns a mapping whose keys are exactly the
\* roles of the matching block records and whose value for a role is the
\* BlockInfo built from that role's record alone, for one or two records
C18_BlockInfoKeyedByRole ==
    fCalled = "getBlockInfoByRoleForDate" =>
        /\ (MatchingBlocks = <<>>) <=> (fThrown # <<>>)
        /\ fThrown = <<>> =>
              /\ ObjKeys(fOut) = [i \in 1..Len(MatchingBlocks) |-> MatchingBlocks[i].role]
              /\ \A i \in 1..Len(MatchingBlocks) :
                    fOut[i].v = ExpectedInfo(MatchingBlocks[i])

\* two records matched, with different names and different start dates
C18_Witness ==
    /\ fCalled = "getBlockInfoByRoleForDate"
    /\ Len(fOut) = 2
    /\ fOut[1].k = ROLE_RESIDENT
    /\ fOut[1].v.blockName = <<"1", "B">> /\ fOut[2].v.blockName = <<"1", "A">>
    /\ fOut[1].v.dayNumber # fOut[2].v.dayNumber

\* C19: when a matching block record has no block name, building its
\* BlockInfo raises no error and gives isA equal to false
C19_MissingBlockNameIsNotA ==
    ResolverCalled =>
        \A i \in 1..Len(MatchingBlocks) :
            (MatchingBlocks[i].block = undefined
                /\ (fCalled = "getBlockInfoForDate" => i = 1))
            => /\ fThrown = <<>>
               /\ \E n \in 1..Len(fOut) :
                     RecordOf(n) = MatchingBlocks[i] /\ InfoAt(n).isA = "false"

\* ------------------------------------------------------------------------
\* Properties of the rule builder and the fetchers
\* ------------------------------------------------------------------------
\* the rule map of the r-th role has been built and is the current one
RulesBuilt(r) == call[<<r, "serviceRegex">>] = "ok" /\ roleIdx = r

\* the pattern of a category of the rule map holds the expression
PatternIncludes(rules, key, expression) ==
    /\ ObjHas(rules, key)
    /\ \E j \in 1..Len(ObjGet(rules, key).alts) : ObjGet(rules, key).alts[j] = expression

\* C14: for every service of the OFF fact map that has a stored template, the
\* OFF pattern includes the template with the placeholder replaced by the
\* service's OFF position, and likewise for the MAYBE_OFF fact map and
\* pattern, also when a service is in both fact maps
C14_EveryFactHasItsPattern ==
    \A r \in {1, 2} :
        RulesBuilt(r) =>
            \A key \in {CLASSIFICATION_KEY_OFF, CLASSIFICATION_KEY_MAYBE_OFF} :
                LET facts == ObjGet(rotationsByScheduled, key)
                IN \A i \in 1..Len(facts) : \A t \in 1..Len(store.serviceRegex) :
                       store.serviceRegex[t].service = facts[i].k =>
                           PatternIncludes(regExpInfo, key,
                               ReplaceAll(store.serviceRegex[t].expression,
                                          EXP_PLACEHOLDER_POSITION, facts[i].v))

\* the position of the last returned row of a service with the sentinel
LastPosition(service, sentinel) ==
    fIn.rows[Max({i \in 1..Len(fIn.rows) :
                    fIn.rows[i].service = service /\ fIn.rows[i].scheduled = sentinel})].position

\* the map holds exactly the services of the rows with the sentinel, each
\* with the position of its last such row
RecordsRowsOf(map, sentinel) ==
    /\ \A i \in 1..Len(fIn.rows) :
          fIn.rows[i].scheduled = sentinel =>
              /\ ObjHas(map, fIn.rows[i].service)
              /\ ObjGet(map, fIn.rows[i].service) = LastPosition(fIn.rows[i].service, sentinel)
    /\ \A j \in 1..Len(map) :
          \E i \in 1..Len(fIn.rows) :
              fIn.rows[i].service = map[j].k /\ fIn.rows[i].scheduled = sentinel

\* C15: the primary fetch records every returned row whose day number column
\* is the OFF sentinel in the OFF map as service -> position and every row
\* whose column is the MAYBE sentinel in the MAYBE_OFF map, and no OFF row in
\* the MAYBE_OFF map
C15_RowsRecordedBySentinel ==
    fCalled \in {"getOffAndMaybeOffRotationsForRole",
                 "templates.getOffAndMaybeOffRotationsForRole"} =>
        /\ RecordsRowsOf(ObjGet(fOut, CLASSIFICATION_KEY_OFF), SCHEDULED_OFF)
        /\ RecordsRowsOf(ObjGet(fOut, CLASSIFICATION_KEY_MAYBE_OFF), SCHEDULED_MAYBE_OFF)

\* both fetches of the r-th role have returned and their facts are merged
FactsMerged(r) ==
    /\ roleIdx = r
    /\ call[<<r, "templates">>] = "ok"
    /\ call[<<r, "bayview">>] = "ok"

\* C16: when the Bayview fetch has returned facts, the OFF map is the primary
\* OFF map overridden by them (a Bayview fact replaces the primary fact of the
\* same service, every other primary OFF fact is kept, nothing else is
\* added), and the MAYBE_OFF map is the primary MAYBE_OFF map, unchanged
C16_BayviewOverridesOff ==
    \A r \in 1..Len(blockInfoByRole) :
        FactsMerged(r) =>
            LET off == ObjGet(rotationsByScheduled, CLASSIFICATION_KEY_OFF)
                primaryOff == ObjGet(PrimaryRotations(r), CLASSIFICATION_KEY_OFF)
            IN /\ ObjKeys(rotationsByScheduled)
                     = <<CLASSIFICATION_KEY_OFF, CLASSIFICATION_KEY_MAYBE_OFF>>
               /\ ObjGet(rotationsByScheduled, CLASSIFICATION_KEY_MAYBE_OFF)
                     = ObjGet(PrimaryRotations(r), CLASSIFICATION_KEY_MAYBE_OFF)
               /\ \A j \in 1..Len(bvOffRotations) :
                     /\ ObjHas(off, bvOffRotations[j].k)
                     /\ ObjGet(off, bvOffRotations[j].k) = bvOffRotations[j].v
               /\ \A i \in 1..Len(primaryOff) :
                     /\ ObjHas(off, primaryOff[i].k)
                     /\ ~ObjHas(bvOffRotations, primaryOff[i].k) =>
                           ObjGet(off, primaryOff[i].k) = primaryOff[i].v
               /\ \A n \in 1..Len(off) :
                     ObjHas(bvOffRotations, off[n].k) \/ ObjHas(primaryOff, off[n].k)

\* a Bayview fact replaced the primary fact of the same service, which had
\* another position
C16_Witness ==
    \E r \in 1..Len(blockInfoByRole) :
        /\ FactsMerged(r)
        /\ ObjHas(ObjGet(PrimaryRotations(r), CLASSIFICATION_KEY_OFF), SERVICE_BAYVIEW_ICU)
        /\ ObjGet(ObjGet(PrimaryRotations(r), CLASSIFICATION_KEY_OFF), SERVICE_BAYVIEW_ICU) = "1"
        /\ ObjGet(ObjGet(rotationsByScheduled, CLASSIFICATION_KEY_OFF), SERVICE_BAYVIEW_ICU) = "2"

\* the Bayview row of the requested date
BayviewRowOfDate ==
    store.bayview[CHOOSE i \in 1..Len(store.bayview) : store.bayview[i].date = FormatDate(date)]

\* the places, in the row's key order, of the columns holding the OFF sentinel
OffColumns(row) == {i \in 1..Len(row.positions) : row.positions[i].v = SCHEDULED_OFF}

\* C17: the Bayview fetch returns a map of at most one entry, keyed by the
\* Bayview service name: with several OFF columns in the day's row its
\* position is the name of the last of them in the row's key order, and with
\* none the map is empty and no error is raised
C17_BayviewLastOffColumn ==
    \A r \in {1, 2} :
        (roleIdx = r /\ call[<<r, "bayview">>] = "ok") =>
            LET row == BayviewRowOfDate
            IN /\ Len(bvOffRotations) <= 1
               /\ \A n \in 1..Len(bvOffRotations) : bvOffRotations[n].k = SERVICE_BAYVIEW_ICU
               /\ OffColumns(row) # {} =>
                     bvOffRotations = <<[k |-> SERVICE_BAYVIEW_ICU,
                                         v |-> row.positions[Max(OffColumns(row))].k]>>
               /\ OffColumns(row) = {} =>
                     /\ bvOffRotations = <<>>
                     /\ \A n \in 1..Len(thrown) : ~thrown[n].isStatusError

\* the day's row held the OFF sentinel in two columns and the second stands
C17_Witness ==
    /\ \E r \in {1, 2} : roleIdx = r /\ call[<<r, "bayview">>] = "ok"
    /\ Cardinality(OffColumns(BayviewRowOfDate)) = 2
    /\ bvOffRotations = <<[k |-> SERVICE_BAYVIEW_ICU, v |-> "2"]>>

\* ------------------------------------------------------------------------
\* Properties of the response
\* ------------------------------------------------------------------------
\* the classified arrays of a category, role after role in processing order
RECURSIVE ConcatOverRoles(_, _)
ConcatOverRoles(byRole, key) ==
    IF byRole = <<>> THEN <<>>
    ELSE (IF ObjHas(Head(byRole).v, key) THEN ObjGet(Head(byRole).v, key) ELSE <<>>)
         \o ConcatOverRoles(Tail(byRole), key)

AggregateKeys ==
    <<CLASSIFICATION_KEY_OFF, CLASSIFICATION_KEY_MAYBE_OFF, CLASSIFICATION_KEY_LIKELY_NOT_OFF>>

\* the number of places of an array holding the entry
Occurrences(array, e) == Cardinality({j \in 1..Len(array) : array[j] = e})

\* C20 as stated: every category array of a successful response is exactly
\* the concatenation, over the active roles, of the role's classified array
C20_PayloadIsConcatenation ==
    \A n \in 1..Len(responses) :
        responses[n].status = 200 =>
            \A i \in 1..3 :
                ObjGet(responses[n].payload[1].schedules, AggregateKeys[i])
                    = ConcatOverRoles(classifiedByRole, AggregateKeys[i])

\* C20 amended: the aggregate the handler merges is exactly that
\* concatenation, and every category array of a successful response holds
\* exactly the entries of the concatenation, each as often as the
\* concatenation does, in ascending order of name; a category missing from a
\* role's result contributes nothing, and every roster entry of every active
\* role is in the payload exactly once
C20_PayloadIsSortedConcatenation ==
    \A n \in 1..Len(responses) :
        responses[n].status = 200 =>
            LET payload == responses[n].payload[1].schedules
            IN /\ ObjKeys(payload) = AggregateKeys
               /\ ObjKeys(classifiedByRole) = ObjKeys(blockInfoByRole)
               /\ \A i \in 1..3 :
                     LET array == payload[i].v
                         concat == ConcatOverRoles(classifiedByRole, AggregateKeys[i])
                     IN /\ schedulesByStatus[i] = [k |-> AggregateKeys[i], v |-> concat]
                        /\ Len(array) = Len(concat)
                        /\ \A j \in 1..Len(concat) :
                              Occurrences(array, concat[j]) = Occurrences(concat, concat[j])
                        /\ \A j \in 1..(Len(array) - 1) :
                              NameLe(array[j].name, array[j + 1].name)
               /\ \A r \in 1..Len(blockInfoByRole) :
                     \A e \in RosterEntries(RoleAt(r), blockInfoByRole[r].v.blockName) :
                         Cardinality(PlacesOf(payload, e)) = 1

\* two roles were merged: a category holds entries of both, and the result
\* of one role lacks a category that the other one has
C20_Witness ==
    /\ Len(responses) = 1
    /\ responses[1].status = 200
    /\ Len(classifiedByRole) = 2
    /\ \E i \in 1..3 :
          \E a, b \in 1..Len(responses[1].payload[1].schedules[i].v) :
              /\ responses[1].payload[1].schedules[i].v[a].role = ROLE_INTERN
              /\ responses[1].payload[1].schedules[i].v[b].role = ROLE_RESIDENT
    /\ \E i \in 1..2 :
          /\ ~ObjHas(classifiedByRole[1].v, AggregateKeys[i])
          /\ ObjHas(classifiedByRole[2].v, AggregateKeys[i])
          /\ ObjGet(classifiedByRole[2].v, AggregateKeys[i]) # <<>>

\* ------------------------------------------------------------------------
\* Properties of the order of the store calls
\* ------------------------------------------------------------------------
\* the fetches the r-th role's pipeline starts
FetchesOf(r) ==
    {<<r, "schedules">>, <<r, "templates">>}
        \cup (IF RoleAt(r) = ROLE_RESIDENT THEN {<<r, "bayview">>} ELSE {})

\* C21: the fetches of a role (roster, primary facts, Bayview facts) are all
\* started before the handler waits for any of them; while the primary or
\* the Bayview fetch has not completed the facts are unmerged; and the scan
\* of the rule builder is issued only once every fetch of the role has
\* completed successfully, whatever the order of their completions
C21_FetchesConcurrentThenRules ==
    \A r \in 1..Len(blockInfoByRole) :
        /\ (\E c \in FetchesOf(r) : call[c] # "unissued") =>
              (\A c \in FetchesOf(r) : call[c] # "unissued")
        /\ (roleIdx = r /\ pc = "awaitFetch") =>
              \A c \in FetchesOf(r) : call[c] # "unissued"
        /\ call[<<r, "serviceRegex">>] # "unissued" =>
              \A c \in FetchesOf(r) : call[c] = "ok"
        /\ (roleIdx = r /\ RoleAt(r) = ROLE_RESIDENT) =>
              /\ call[<<r, "templates">>] # "ok" => rotationsByScheduled = <<>>
              /\ (call[<<r, "templates">>] = "ok" /\ call[<<r, "bayview">>] # "ok") =>
                    rotationsByScheduled = PrimaryRotations(r)

\* the rule builder's scan of a resident is out: the three fetches have
\* completed, and the Bayview facts changed the primary ones
C21_Witness ==
    \E r \in 1..Len(blockInfoByRole) :
        /\ RoleAt(r) = ROLE_RESIDENT
        /\ call[<<r, "serviceRegex">>] = "pending"
        /\ \A c \in FetchesOf(r) : call[c] = "ok"
        /\ rotationsByScheduled # PrimaryRotations(r)

\* the r-th role's pipeline has returned its classification to the handler
RoleClassified(r) ==
    /\ call[<<r, "serviceRegex">>] = "ok"
    /\ Len(classifiedByRole) >= r
    /\ classifiedByRole[r].k = RoleAt(r)

\* C22: with two roles, no store call of the second role's pipeline is
\* issued before the first role's classification has completed, and while
\* the second role's pipeline runs the aggregate holds exactly the first
\* role's results
C22_RolesOneAfterAnother ==
    /\ \A c \in {2} \X CallNames :
          call[c] # "unissued" =>
              /\ Len(blockInfoByRole) = 2
              /\ roleIdx = 2
              /\ RoleClassified(1)
              /\ \A c1 \in {1} \X CallNames : call[c1] \in {"ok", "unissued"}
    /\ (roleIdx = 2 /\ call[<<2, "serviceRegex">>] # "ok") =>
          /\ Len(classifiedByRole) = 1
          /\ ObjKeys(schedulesByStatus) = AggregateKeys
          /\ \A i \in 1..3 :
                schedulesByStatus[i].v
                    = (IF ObjHas(classifiedByRole[1].v, AggregateKeys[i])
                       THEN ObjGet(classifiedByRole[1].v, AggregateKeys[i]) ELSE <<>>)
    /\ roleIdx <= 1 => Len(classifiedByRole) <= 1

\* the second role's fetches are out, and the aggregate already holds
\* entries of the first role
C22_Witness ==
    /\ roleIdx = 2
    /\ call[<<2, "schedules">>] = "pending"
    /\ call[<<2, "templates">>] = "pending"
    /\ RoleClassified(1)
    /\ \E i \in 1..2 : schedulesByStatus[i].v # <<>>

\* ------------------------------------------------------------------------
\* Properties of requests running together
\* ------------------------------------------------------------------------
\* the facts of a role on a day, as one request computes them from the store
LoneFacts(thisDay, role, info) ==
    LET primary == OffAndMaybeOffRotations(
                       ScanTemplates(store.templates, role, getIsAFromBlockInfo(info),
                                     getDayNumberFromBlockInfo(info)))
        row == QueryBayview(store.bayview, FormatDate(thisDay))[1]
    IN IF role = ROLE_RESIDENT
       THEN MergeBayview(primary, BayviewOffRotations(<<>>, row, BayviewColumns(row)))
       ELSE primary

LoneClassified(thisDay, role, info) ==
    LET facts == LoneFacts(thisDay, role, info)
    IN classifySchedulesByStatus(
           getRegexForRotationsByScheduled(
               ScanServiceRegex(store.serviceRegex, ServicesOf(facts)), facts),
           ReduceSchedules(<<>>,
               ScanSchedules(store.schedules, role, getBlockNameFromBlockInfo(info)), role))

RECURSIVE LoneAggregate(_, _, _)
LoneAggregate(thisDay, infoByRole, n) ==
    IF n = 0 THEN EmptySchedulesByStatus
    ELSE MergeClassified(LoneAggregate(thisDay, infoByRole, n - 1),
                         LoneClassified(thisDay, infoByRole[n].k, infoByRole[n].v))

\* the block records of the store that hold the day
LoneBlocks(thisDay) == ScanBlocks(store.blocks, FormatDate(thisDay))

\* the successful response to a request for the day that runs alone
LoneSuccess(thisDay) ==
    LET infoByRole == ReduceBlocks(<<>>, LoneBlocks(thisDay), thisDay)
    IN SuccessResponse(thisDay, infoByRole,
                       LoneAggregate(thisDay, infoByRole, Len(infoByRole)))

\* the day has a resident block and no Bayview row
LoneBayviewMissing(thisDay) ==
    /\ \E i \in 1..Len(LoneBlocks(thisDay)) : LoneBlocks(thisDay)[i].role = ROLE_RESIDENT
    /\ QueryBayview(store.bayview, FormatDate(thisDay)) = <<>>

\* the responses of a request for the day are those of a request that runs
\* alone against the store: at most one; the success response the store
\* determines; or the error a lone request can meet
AsIfAlone(thisDay, sent) ==
    /\ Len(sent) <= 1
    /\ \A n \in 1..Len(sent) :
          /\ sent[n].status \in {200, 400, 404, 500}
          /\ sent[n].status = 400 <=> ~IsSupportedDate(thisDay)
          /\ sent[n].status = 200 =>
                /\ LoneBlocks(thisDay) # <<>>
                /\ ~LoneBayviewMissing(thisDay)
                /\ sent[n] = LoneSuccess(thisDay)
          /\ sent[n].status = 404 =>
                \/ sent[n] = NoBlockResponse /\ LoneBlocks(thisDay) = <<>>
                \/ sent[n] = NoBayviewResponse /\ LoneBayviewMissing(thisDay)
          /\ sent[n].status = 500 =>
                \E m \in StoreErrorMessages \cup {InvalidExpressionMessage} :
                    sent[n] = Catch(OtherError(m))

\* C23: no step of any request changes the store, and the response to each
\* of two requests whose handlers interleave at their awaits is the response
\* the request would get running alone against the same store
C23_RequestsIndependent ==
    /\ [][store' = store]_vars
    /\ [](AsIfAlone(date, responses) /\ AsIfAlone(suspended.date, suspended.responses))

\* a request for a day with two roles was answered with a success while the
\* handler of a request for another day waits for its second role's fetches
C23_Witness ==
    /\ suspended # <<>>
    /\ Len(responses) = 1
    /\ responses[1].status = 200
    /\ Len(blockInfoByRole) = 2
    /\ date # suspended.date
    /\ suspended.roleIdx = 2
    /\ suspended.pc = "awaitFetch"
    /\ suspended.schedulesByStatus # schedulesByStatus

\* ------------------------------------------------------------------------
\* Properties of the pipeline's rule map
\* ------------------------------------------------------------------------
\* the rule map in regExpInfo is the one the last classified role was
\* classified with
LastClassified == Len(classifiedByRole)

\* the roster entries of the last classified role whose assignment matches
\* both patterns of its rule map
MatchBothPatterns ==
    {e \in RosterEntries(RoleAt(LastClassified),
                         blockInfoByRole[LastClassified].v.blockName) :
        /\ ObjHas(regExpInfo, CLASSIFICATION_KEY_OFF)
        /\ ObjHas(regExpInfo, CLASSIFICATION_KEY_MAYBE_OFF)
        /\ RegexTest(ObjGet(regExpInfo, CLASSIFICATION_KEY_OFF), e.assignment)
        /\ RegexTest(ObjGet(regExpInfo, CLASSIFICATION_KEY_MAYBE_OFF), e.assignment)}

\* the array of a category holds the entry
Holds(classified, key, e) ==
    /\ ObjHas(classified, key)
    /\ \E j \in 1..Len(ObjGet(classified, key)) : ObjGet(classified, key)[j] = e

\* C24: the rule map of the pipeline never has MAYBE_OFF before OFF, and a
\* roster entry whose assignment matches both the OFF and the MAYBE_OFF
\* pattern is reported in the MAYBE_OFF bucket and not in the OFF bucket, in
\* the role's classification and in the response
C24_OffBeforeMaybeOff ==
    LastClassified >= 1 =>
        /\ ObjKeys(regExpInfo) \in
              {<<>>, <<CLASSIFICATION_KEY_OFF>>, <<CLASSIFICATION_KEY_MAYBE_OFF>>,
               <<CLASSIFICATION_KEY_OFF, CLASSIFICATION_KEY_MAYBE_OFF>>}
        /\ \A e \in MatchBothPatterns :
              /\ Holds(classifiedByRole[LastClassified].v, CLASSIFICATION_KEY_MAYBE_OFF, e)
              /\ ~Holds(classifiedByRole[LastClassified].v, CLASSIFICATION_KEY_OFF, e)
              /\ \A n \in 1..Len(responses) :
                    responses[n].status = 200 =>
                        /\ Holds(responses[n].payload[1].schedules,
                                 CLASSIFICATION_KEY_MAYBE_OFF, e)
                        /\ ~Holds(responses[n].payload[1].schedules,
                                  CLASSIFICATION_KEY_OFF, e)

\* a roster entry matched both patterns and the response was sent
C24_Witness ==
    /\ LastClassified >= 1
    /\ MatchBothPatterns # {}
    /\ Len(responses) = 1
    /\ responses[1].status = 200

\* both fact maps of the current role are there and hold no service
FactsEmpty(r) ==
    /\ roleIdx = r
    /\ FetchFulfilled(call, r)
    /\ ObjGet(rotationsByScheduled, CLASSIFICATION_KEY_OFF) = <<>>
    /\ ObjGet(rotationsByScheduled, CLASSIFICATION_KEY_MAYBE_OFF) = <<>>

\* C25: when the OFF and the MAYBE_OFF fact map of a role are both empty, the
\* role's pipeline still succeeds: its rule scan is not rejected, and once
\* the scan has answered the rule map is empty and every roster entry of the
\* role is in the NOT-SURE bucket, with nothing in OFF or MAYBE_OFF
C25_EmptyFactsStillSucceed ==
    \A r \in 1..Len(blockInfoByRole) :
        FactsEmpty(r) =>
            /\ call[<<r, "serviceRegex">>] \in {"pending", "ok", "failed"}
            /\ \A n \in 1..Len(responses) :
                  responses[n].message # InvalidExpressionMessage
            /\ call[<<r, "serviceRegex">>] = "ok" =>
                  /\ regExpInfo = <<>>
                  /\ Len(classifiedByRole) = r
                  /\ ObjKeys(classifiedByRole[r].v) = <<CLASSIFICATION_KEY_LIKELY_NOT_OFF>>
                  /\ \A e \in RosterEntries(RoleAt(r), blockInfoByRole[r].v.blockName) :
                        Holds(classifiedByRole[r].v, CLASSIFICATION_KEY_LIKELY_NOT_OFF, e)

\* the services of the fact maps that have no stored expression template
Untemplated(facts) ==
    {ServicesOf(facts)[i] : i \in 1..Len(ServicesOf(facts))}
        \ {store.serviceRegex[t].service : t \in 1..Len(store.serviceRegex)}

\* the expression comes from a stored template and a fact of its service
FromTemplate(expression, facts) ==
    \E t \in 1..Len(store.serviceRegex) :
        \E key \in {CLASSIFICATION_KEY_OFF, CLASSIFICATION_KEY_MAYBE_OFF} :
            /\ ObjHas(ObjGet(facts, key), store.serviceRegex[t].service)
            /\ expression = ReplaceAll(store.serviceRegex[t].expression,
                                       EXP_PLACEHOLDER_POSITION,
                                       ObjGet(ObjGet(facts, key), store.serviceRegex[t].service))

\* C26: when a service of the OFF or MAYBE_OFF fact map has no stored
\* expression template, no error is raised and the request succeeds; every
\* expression of the rule map comes from a stored template, none from that
\* service; and every roster entry is in the category of the last pattern
\* that matches its assignment, or in NOT-SURE when none matches
C26_UntemplatedServiceIgnored ==
    \A r \in 1..Len(blockInfoByRole) :
        (RulesBuilt(r) /\ Untemplated(rotationsByScheduled) # {}) =>
            /\ thrown = <<>>
            /\ Len(responses) = 1
            /\ responses[1].status = 200
            /\ \A c \in 1..Len(regExpInfo) : \A j \in 1..Len(regExpInfo[c].v.alts) :
                  FromTemplate(regExpInfo[c].v.alts[j], rotationsByScheduled)
            /\ \A e \in RosterEntries(RoleAt(r), blockInfoByRole[r].v.blockName) :
                  LET matching == MatchingCategories(regExpInfo, e.assignment)
                      key == IF matching = {} THEN CLASSIFICATION_KEY_LIKELY_NOT_OFF
                             ELSE regExpInfo[Max(matching)].k
                  IN /\ Holds(classifiedByRole[Len(classifiedByRole)].v, key, e)
                     /\ Holds(responses[1].payload[1].schedules, key, e)
                     /\ Cardinality(PlacesOf(responses[1].payload[1].schedules, e)) = 1

\* the intern on Nights, which has no template, is reported NOT-SURE, while
\* the intern on Janeway is reported OFF by the expression that remains
C26_Witness ==
    \E r \in 1..Len(blockInfoByRole) :
        /\ RulesBuilt(r)
        /\ "Nights" \in Untemplated(rotationsByScheduled)
        /\ Len(responses) = 1
        /\ \E e \in RosterEntries(RoleAt(r), blockInfoByRole[r].v.blockName) :
              /\ e.assignment = <<"Nights", "A">>
              /\ Holds(responses[1].payload[1].schedules, CLASSIFICATION_KEY_LIKELY_NOT_OFF, e)
        /\ \E e \in RosterEntries(RoleAt(r), blockInfoByRole[r].v.blockName) :
              Holds(responses[1].payload[1].schedules, CLASSIFICATION_KEY_OFF, e)

====
